---- MODULE Spec2Model ----
(***************************************************************************)
(* A model of the PDF concatenation pipeline of CompSciCourseWorkCollator: *)
(* the singleton PDFMerger (src/unnamed/part_004, lines 413-1068) and the  *)
(* DriveManager helpers it writes through (src/DriveManager.js).           *)
(*                                                                         *)
(* Google Drive is modelled as a sequence of file records; a file id is    *)
(* its index in that sequence.  A PDF's content is its sequence of pages;  *)
(* a page is a pair <<id of the file it was first read from, page index>>. *)
(* A call of the external services that can throw does so when the call's  *)
(* fault parameter says so; one call of the merger suffers at most one     *)
(* fault.  Whether a file decodes is a property of the file.  pdf-lib is   *)
(* fetched at run time and is no part of the repository: PDFDocument.save  *)
(* writes the pages of the document as they are, except that the library   *)
(* that was fetched may add one blank page to a document without pages     *)
(* (the call's choice DefaultPage); load reads the pages back.             *)
(***************************************************************************)
EXTENDS Integers, Sequences, FiniteSets, TLC

VARIABLES files, destinationFolder, spreadsheet, last, instances, _instance

vars == <<files, destinationFolder, spreadsheet, last, instances, _instance>>

----------------------------------------------------------------------------
(* Bounds of the model *)

MaxPages == 2       \* pages of the longest input PDF
MaxItems == 3       \* length of the item lists handed to the merger
MaxBatch == 2       \* largest batchSize handed to processPDFsInBatches
MaxExisting == 2    \* same-named files already in a folder before a run
MaxFaultAt == 4     \* a fault hits the 1st .. MaxFaultAt-th call of its kind

(* Program constants *)

DefaultBatchSize == 5
BatchThreshold == 10
PDF == "application/pdf"
GOOGLE_DOCS == "application/vnd.google-apps.document"
DefaultOutputFileName == "Merged.pdf"

NoFolder == "null"
NoSpreadsheet == <<>>     \* a spreadsheet without a sheet of interest
RootFolder == "root"
NoFile == 0

----------------------------------------------------------------------------
(* Google Drive *)

NewFile(name, folder, mime, pages, ok) ==
  [name |-> name, folder |-> folder, mime |-> mime, pages |-> pages,
   ok |-> ok, trashed |-> FALSE]

PagesOf(id, pageCount) == [j \in 1..pageCount |-> <<id, j - 1>>]

\* The student's files: two readable PDFs, a PDF that does not decode, a Doc.
InputFiles ==
  << NewFile("a.pdf", "S", PDF, PagesOf(1, MaxPages), TRUE),
     NewFile("b.pdf", "S", PDF, PagesOf(2, 1), TRUE),
     NewFile("c.pdf", "S", PDF, <<>>, FALSE),
     NewFile("d", "S", GOOGLE_DOCS, <<>>, FALSE) >>

\* An output left in a folder by an earlier run.
OldOutput(folder) == NewFile(DefaultOutputFileName, folder, PDF, PagesOf(0, 1), TRUE)

isPdf(file) == file.mime = PDF

\* folder.getFilesByName(name): the ids of the folder's non-trashed files of that name
getFilesByName(fs, folder, name) ==
  {id \in DOMAIN fs : fs[id].folder = folder /\ fs[id].name = name /\ ~fs[id].trashed}

setTrashed(fs, id) == [fs EXCEPT ![id].trashed = TRUE]

\* Utilities.newBlob(bytes, MimeType.PDF, name) followed by folder.createFile(blob)
createFile(fs, folder, name, bytes) ==
  Append(fs, NewFile(name, folder, PDF, bytes.pages, ~bytes.empty))

\* a makeCopy that ignores the folder it is given
makeCopyBeside(fs, id, name, folder) ==
  Append(fs, NewFile(name, fs[id].folder, fs[id].mime, fs[id].pages, fs[id].ok))

\* file.makeCopy(name, folder)
makeCopy(fs, id, name, folder) ==
  Append(fs, NewFile(name, folder, fs[id].mime, fs[id].pages, fs[id].ok))

----------------------------------------------------------------------------
(* Faults: [kind, at] makes the at-th call of that kind throw.              *)

NoFault == [kind |-> "none", at |-> 1]

\* no fault, but the pdf-lib that is fetched adds a page to a document without
\* pages when it saves it (addDefaultPage), in every pass of the call
DefaultPage == [kind |-> "defaultPage", at |-> 1]

Faults ==
  {NoFault} \cup
  [kind : {"lib", "save", "empty", "create", "copy", "trash"}, at : 1..MaxFaultAt]
    \cup {DefaultPage}

Hits(fault, kind, n) == fault.kind = kind /\ fault.at = n

\* the fault that the n-th call of mergeMultiplePdfFiles sees
MergeFault(fault, n) ==
  IF fault.kind \in {"lib", "save", "empty"} /\ fault.at = n THEN fault.kind
  ELSE IF fault.kind = "defaultPage" THEN fault.kind
  ELSE "none"

----------------------------------------------------------------------------
(* PDFMerger.validateFiles *)

RECURSIVE validateFilesFrom(_, _, _, _, _)
validateFilesFrom(fs, items, i, validFiles, invalidFiles) ==
  IF i > Len(items)
  THEN [validFiles |-> validFiles, invalidFiles |-> invalidFiles]
  ELSE LET item == items[i] IN
       IF item \notin DOMAIN fs
       THEN \* DriveApp.getFileById throws: the catch records the item
            validateFilesFrom(fs, items, i + 1, validFiles,
                              Append(invalidFiles, [id |-> item, why |-> "error"]))
       ELSE IF isPdf(fs[item])
       THEN validateFilesFrom(fs, items, i + 1, Append(validFiles, item), invalidFiles)
       ELSE validateFilesFrom(fs, items, i + 1, validFiles,
                              Append(invalidFiles, [id |-> item, why |-> "type"]))

\* a validateFiles whose catch drops the item instead of recording it
validateFilesDroppingErrors(fs, items) ==
  LET v == validateFilesFrom(fs, items, 1, <<>>, <<>>) IN
  [v EXCEPT !.invalidFiles = SelectSeq(@, LAMBDA x : x.why # "error")]

validateFiles(fs, items) == validateFilesFrom(fs, items, 1, <<>>, <<>>)

----------------------------------------------------------------------------
(* PDFMerger.mergeMultiplePdfFiles *)

NoBytes == [empty |-> TRUE, pages |-> <<>>]

\* pages.forEach((page) => pdfDoc.addPage(page))
addPagesPrepending(pdfDoc, pages) == pages \o pdfDoc

addPages(pdfDoc, pages) == pdfDoc \o pages

\* pdfDoc.copyPages(pdfStudentData, pageIndices) with pageIndices 0..pageCount-1
copyPages(file) ==
  LET pageCount == Len(file.pages)
      pageIndices == [k \in 1..pageCount |-> k - 1]
  IN  [k \in 1..pageCount |-> file.pages[pageIndices[k] + 1]]

\* a loop without the try/catch: the first file that fails ends it
RECURSIVE copyEachFileStopping(_, _, _, _)
copyEachFileStopping(fs, fileIds, i, pdfDoc) ==
  IF i > Len(fileIds) THEN pdfDoc
  ELSE IF fs[fileIds[i]].ok
       THEN copyEachFileStopping(fs, fileIds, i + 1,
                                 addPages(pdfDoc, copyPages(fs[fileIds[i]])))
       ELSE pdfDoc

\* for (const file of files) { try { load, copyPages, addPage } catch (e) { log } }
RECURSIVE copyEachFile(_, _, _, _)
copyEachFile(fs, fileIds, i, pdfDoc) ==
  IF i > Len(fileIds) THEN pdfDoc
  ELSE IF fs[fileIds[i]].ok
       THEN copyEachFile(fs, fileIds, i + 1, addPages(pdfDoc, copyPages(fs[fileIds[i]])))
       ELSE \* load or copyPages threw: logged, the file is left out
            copyEachFile(fs, fileIds, i + 1, pdfDoc)

BlankPage == <<0, 0>>

\* pdfDoc.save(): pdf-lib is fetched at run time; its save writes the pages
\* as they are, or adds a blank page when there is none
save(pdfDoc, mfault) ==
  IF mfault = "defaultPage" /\ pdfDoc = <<>> THEN <<BlankPage>> ELSE pdfDoc

\* a merge that gives no bytes when no file could be read
mergeReadFilesOnly(fs, fileIds, mfault) ==
  IF mfault \in {"lib", "save"} THEN [threw |-> TRUE, bytes |-> NoBytes]
  ELSE IF mfault = "empty" \/ copyEachFile(fs, fileIds, 1, <<>>) = <<>>
       THEN [threw |-> FALSE, bytes |-> NoBytes]
       ELSE [threw |-> FALSE,
             bytes |-> [empty |-> FALSE, pages |-> copyEachFile(fs, fileIds, 1, <<>>)]]

\* mfault: "lib" loadPdfLib throws, "save" pdfDoc.save throws,
\* "empty" pdfDoc.save returns no bytes
mergeMultiplePdfFiles(fs, fileIds, mfault) ==
  IF mfault = "lib" THEN [threw |-> TRUE, bytes |-> NoBytes]
  ELSE LET pdfDoc == copyEachFile(fs, fileIds, 1, <<>>) IN
       IF mfault = "save" THEN [threw |-> TRUE, bytes |-> NoBytes]
       ELSE IF mfault = "empty" THEN [threw |-> FALSE, bytes |-> NoBytes]
       ELSE [threw |-> FALSE, bytes |-> [empty |-> FALSE, pages |-> save(pdfDoc, mfault)]]

----------------------------------------------------------------------------
(* The progress of one merger call: Drive as the call has left it so far,   *)
(* what the call has returned, and how many external calls it has made.     *)

NoResult ==
  [success |-> FALSE, message |-> "", count |-> 0, file |-> NoFile,
   invalidFiles |-> [tag |-> "absent", list |-> <<>>]]

Start(fs) ==
  [fs |-> fs, threw |-> FALSE, bytes |-> NoBytes,
   passes |-> <<>>,          \* files given to each mergeMultiplePdfFiles call
   tempFiles |-> <<>>,       \* ids of the temporary batch files created
   trashFailed |-> {},       \* files whose setTrashed threw
   nCreate |-> 0, nTrash |-> 0, nCopy |-> 0,
   proceed |-> TRUE, asked |-> FALSE, ambiguous |-> FALSE, inherited |-> FALSE,
   validFiles |-> <<>>, invalidFiles |-> <<>>,
   exit |-> "", result |-> NoResult]

\* the fault of the call has happened
Fired(fault, st) ==
  \/ fault.kind = "none"
  \/ fault.kind \in {"lib", "save", "empty"} /\ fault.at <= Len(st.passes)
  \/ fault.kind = "defaultPage" /\ Len(st.passes) > 0
  \/ fault.kind = "create" /\ fault.at <= st.nCreate
  \/ fault.kind = "copy" /\ fault.at <= st.nCopy
  \/ fault.kind = "trash" /\ fault.at <= st.nTrash

Min(a, b) == IF a < b THEN a ELSE b

SetMin(S) == CHOOSE x \in S : \A y \in S : x <= y

SetMax(S) == CHOOSE x \in S : \A y \in S : x >= y

RECURSIVE Ascending(_)
Ascending(S) == IF S = {} THEN <<>> ELSE <<SetMin(S)>> \o Ascending(S \ {SetMin(S)})

----------------------------------------------------------------------------
(* PDFMerger.processPDFsInBatches *)

parentFolderForTempFiles(dest) == IF dest # NoFolder THEN dest ELSE RootFolder

\* `temp_batch_${Math.floor(i/batchSize) + 1}_of_${Math.ceil(files.length/batchSize)}.pdf`
tempName(i, n, batchSize) ==
  "temp_batch_" \o ToString((i \div batchSize) + 1) \o "_of_"
    \o ToString((n + batchSize - 1) \div batchSize) \o ".pdf"

\* one merge pass, run as the next mergeMultiplePdfFiles call of st
mergePass(st, fileIds, fault) ==
  LET data == mergeMultiplePdfFiles(st.fs, fileIds, MergeFault(fault, Len(st.passes) + 1))
  IN  [st EXCEPT !.passes = Append(@, Len(fileIds)),
                 !.threw = data.threw, !.bytes = data.bytes]

\* files.slice(i, end)
batchSliceShort(fileIds, i, end) == SubSeq(fileIds, i + 1, end - 1)

batchSlice(fileIds, i, end) == SubSeq(fileIds, i + 1, end)

\* parentFolderForTempFiles.createFile(tempBlob); tempFiles.push(tempFile)
saveTempFile(merged, name, parent, fault) ==
  IF merged.threw THEN merged
  ELSE IF Hits(fault, "create", merged.nCreate + 1)
       THEN [merged EXCEPT !.nCreate = @ + 1, !.threw = TRUE]
       ELSE [merged EXCEPT !.nCreate = @ + 1,
                           !.fs = createFile(@, parent, name, merged.bytes),
                           !.tempFiles = Append(@, Len(merged.fs) + 1)]

\* for (let i = 0; i < files.length; i += batchSize) { ... }
RECURSIVE batchLoop(_, _, _, _, _, _)
batchLoop(st, fileIds, batchSize, i, parent, fault) ==
  IF i >= Len(fileIds) \/ st.threw THEN st
  ELSE batchLoop(saveTempFile(mergePass(st,
                                        batchSlice(fileIds, i,
                                                   Min(i + batchSize, Len(fileIds))),
                                        fault),
                              tempName(i, Len(fileIds), batchSize), parent, fault),
                 fileIds, batchSize, i + batchSize, parent, fault)

\* tempFiles.forEach(file => { try { file.setTrashed(true) } catch (e) { warn } })
RECURSIVE trashEach(_, _, _, _)
trashEach(st, ids, k, fault) ==
  IF k > Len(ids) THEN st
  ELSE LET n == st.nTrash + 1 IN
       IF Hits(fault, "trash", n)
       THEN trashEach([st EXCEPT !.nTrash = n, !.trashFailed = @ \cup {ids[k]}],
                      ids, k + 1, fault)
       ELSE trashEach([st EXCEPT !.nTrash = n, !.fs = setTrashed(@, ids[k])],
                      ids, k + 1, fault)

\* the clean-up after the final merge
cleanUpTempFiles(st, fault) == trashEach(st, st.tempFiles, 1, fault)

\* the clean-up of the catch block
noCleanUp(st, fault) == st

cleanUpAfterError(st, fault) == trashEach(st, st.tempFiles, 1, fault)

\* the end of the try block, or its catch block
cleanUp(final, fault) ==
  IF final.threw THEN cleanUpAfterError(final, fault)
  ELSE cleanUpTempFiles(final, fault)

\* const finalData = await this.mergeMultiplePdfFiles(tempFiles)
mergeTempFiles(batches, fault) ==
  IF batches.threw THEN batches
  ELSE mergePass(batches, batches.tempFiles, fault)

processPDFsInBatches(st, dest, fileIds, batchSize, fault) ==
  IF Len(fileIds) <= batchSize THEN mergePass(st, fileIds, fault)
  ELSE cleanUp(mergeTempFiles(batchLoop(st, fileIds, batchSize, 0,
                                        parentFolderForTempFiles(dest), fault),
                              fault),
               fault)

----------------------------------------------------------------------------
(* DriveManager.checkAndHandleExistingFile and DriveManager.copyAndRenameFile *)

\* while (existingFiles.hasNext()) existingFiles.next().setTrashed(true)
\* outside any try: a setTrashed that throws ends the loop and the call
RECURSIVE trashExisting(_, _, _, _)
trashExisting(st, ids, k, fault) ==
  IF k > Len(ids) THEN st
  ELSE LET n == st.nTrash + 1 IN
       IF Hits(fault, "trash", n)
       THEN [st EXCEPT !.nTrash = n, !.trashFailed = @ \cup {ids[k]}, !.threw = TRUE]
       ELSE trashExisting([st EXCEPT !.nTrash = n, !.fs = setTrashed(@, ids[k])],
                          ids, k + 1, fault)

\* a check that trashes the same-named files whatever the answer is
checkTrashingAlways(st, folder, newFileName, answer, fault) ==
  IF getFilesByName(st.fs, folder, newFileName) # {}
  THEN [trashExisting([st EXCEPT !.asked = TRUE],
                      Ascending(getFilesByName(st.fs, folder, newFileName)), 1, fault)
          EXCEPT !.proceed = answer = "YES"]
  ELSE [st EXCEPT !.proceed = TRUE]

\* st.proceed is the value returned
checkAndHandleExistingFile(st, folder, newFileName, answer, fault) ==
  IF getFilesByName(st.fs, folder, newFileName) # {}
  THEN IF answer = "YES"
       THEN trashExisting([st EXCEPT !.asked = TRUE, !.proceed = TRUE],
                          Ascending(getFilesByName(st.fs, folder, newFileName)),
                          1, fault)
       ELSE [st EXCEPT !.asked = TRUE, !.proceed = FALSE]
  ELSE [st EXCEPT !.proceed = TRUE]

\* if (this.checkAndHandleExistingFile(...)) return driveFile.makeCopy(newFileName, folder)
copyIfProceeding(checked, fileId, folder, newFileName, fault) ==
  IF checked.threw \/ ~checked.proceed THEN checked
  ELSE IF Hits(fault, "copy", checked.nCopy + 1)
       THEN [checked EXCEPT !.nCopy = @ + 1, !.threw = TRUE]
       ELSE [checked EXCEPT !.nCopy = @ + 1,
                            !.fs = makeCopy(@, fileId, newFileName, folder)]

copyAndRenameFile(st, fileId, folder, newFileName, answer, fault) ==
  copyIfProceeding(checkAndHandleExistingFile(st, folder, newFileName, answer, fault),
                   fileId, folder, newFileName, fault)

----------------------------------------------------------------------------
(* PDFMerger.copySinglePdfFile and PDFMerger.saveResultingPdf *)

\* outputFolder || this.destinationFolder
effectiveOutputFolder(outputFolder, dest) ==
  IF outputFolder # NoFolder THEN outputFolder ELSE dest

Descriptor(id, message, count) ==
  [success |-> TRUE, message |-> message, count |-> count, file |-> id,
   invalidFiles |-> [tag |-> "absent", list |-> <<>>]]

Failure(message) == [NoResult EXCEPT !.message = message]

\* const newFiles = effectiveOutputFolder.getFilesByName(outputFileName) and
\* the result built from newFiles.next()
\* first: which of several same-named files the iterator hands out first
resultOfCopy(copied, newFiles, first) ==
  IF copied.threw THEN copied
  ELSE IF newFiles # {}
       THEN [copied EXCEPT !.ambiguous = Cardinality(newFiles) > 1,
                           !.result = Descriptor(IF first = "low" THEN SetMin(newFiles)
                                                 ELSE SetMax(newFiles),
                                                 "Copied", 0)]
       ELSE [copied EXCEPT !.result = Failure("CopyFailed")]

\* newFile = file.makeCopy(outputFileName)
\* inherit: the copy is left beside its source, not in the root
copyToRoot(st, fileId, outputFileName, inherit, fault) ==
  IF Hits(fault, "copy", st.nCopy + 1)
  THEN [st EXCEPT !.nCopy = @ + 1, !.threw = TRUE]
  ELSE [st EXCEPT !.nCopy = @ + 1, !.inherited = TRUE,
                  !.fs = makeCopy(@, fileId, outputFileName,
                                  IF inherit THEN st.fs[fileId].folder ELSE RootFolder),
                  !.result = Descriptor(Len(st.fs) + 1, "Copied", 0)]

copyIntoFolder(copied, folder, outputFileName, first) ==
  resultOfCopy(copied, getFilesByName(copied.fs, folder, outputFileName), first)

copySinglePdfFile(st, dest, fileId, outputFileName, outputFolder, answer, first, inherit, fault) ==
  IF effectiveOutputFolder(outputFolder, dest) # NoFolder
  THEN copyIntoFolder(copyAndRenameFile(st, fileId,
                                        effectiveOutputFolder(outputFolder, dest),
                                        outputFileName, answer, fault),
                      effectiveOutputFolder(outputFolder, dest), outputFileName, first)
  ELSE copyToRoot(st, fileId, outputFileName, inherit, fault)

\* st.result.file is the descriptor returned
saveResultingPdf(st, pdfData, outputFileName, outputFolder, dest, fault) ==
  IF Hits(fault, "create", st.nCreate + 1)
  THEN [st EXCEPT !.nCreate = @ + 1, !.threw = TRUE]
  ELSE [st EXCEPT !.nCreate = @ + 1,
                  !.fs = createFile(@, IF effectiveOutputFolder(outputFolder, dest) # NoFolder
                                       THEN effectiveOutputFolder(outputFolder, dest)
                                       ELSE RootFolder,
                                    outputFileName, pdfData),
                  !.result = Descriptor(Len(st.fs) + 1, "Merged", 0)]

----------------------------------------------------------------------------
(* PDFMerger.mergePDFs *)

Listed(invalidFiles) == [tag |-> "list", list |-> invalidFiles]

\* invalidFiles.length > 0 ? invalidFiles : null
ListedOrNull(invalidFiles) ==
  IF Len(invalidFiles) > 0 THEN Listed(invalidFiles) ELSE [tag |-> "null", list |-> <<>>]

Exit(st, name, result) == [st EXCEPT !.exit = name, !.result = result]

\* the catch (e) of mergePDFs
outerCatch(st) == Exit(st, "outerCatch", Failure("Error"))

\* if (invalidFiles.length > 0) result.invalidFiles = invalidFiles; return result
returnSingle(single) ==
  IF single.threw THEN outerCatch(single)
  ELSE Exit(single, "single",
            IF Len(single.invalidFiles) > 0
            THEN [single.result EXCEPT !.invalidFiles = Listed(single.invalidFiles)]
            ELSE single.result)

\* the try around saveResultingPdf and its catch (saveError)
returnSaved(saved) ==
  IF saved.threw
  THEN Exit(saved, "saveError",
            [Failure("SaveError") EXCEPT !.invalidFiles = ListedOrNull(saved.invalidFiles)])
  ELSE Exit(saved, "merged",
            [saved.result EXCEPT !.count = Len(saved.validFiles),
                                 !.invalidFiles = ListedOrNull(saved.invalidFiles)])

\* from if (!pdfData || !pdfData.bytes || pdfData.bytes.length === 0) on
saveMerged(pdfData, outputFileName, outputFolder, dest, fault) ==
  IF pdfData.threw THEN outerCatch(pdfData)
  ELSE IF pdfData.bytes.empty
       THEN Exit(pdfData, "emptyData",
                 [Failure("NoData") EXCEPT
                    !.invalidFiles = ListedOrNull(pdfData.invalidFiles)])
       ELSE returnSaved(saveResultingPdf(pdfData, pdfData.bytes, outputFileName,
                                         outputFolder, dest, fault))

\* mergePDFs once validateFiles has returned (st holds validFiles, invalidFiles)
mergeValidated(st, dest, outputFileName, outputFolder, answer, first, inherit, fault) ==
  IF Len(st.validFiles) = 0
  THEN Exit(st, "noValid",
            [Failure("NoValid") EXCEPT !.invalidFiles = Listed(st.invalidFiles)])
  ELSE IF Len(st.validFiles) = 1
  THEN returnSingle(copySinglePdfFile(st, dest, st.validFiles[1], outputFileName,
                                      outputFolder, answer, first, inherit, fault))
  ELSE saveMerged(IF Len(st.validFiles) > BatchThreshold
                  THEN processPDFsInBatches(st, dest, st.validFiles, DefaultBatchSize,
                                            fault)
                  ELSE mergePass(st, st.validFiles, fault),
                  outputFileName, outputFolder, dest, fault)

Validated(fs, v) ==
  [Start(fs) EXCEPT !.validFiles = v.validFiles, !.invalidFiles = v.invalidFiles]

mergePDFs(fs, dest, items, outputFileName, outputFolder, answer, first, inherit, fault) ==
  mergeValidated(Validated(fs, validateFiles(fs, items)), dest, outputFileName,
                 outputFolder, answer, first, inherit, fault)

----------------------------------------------------------------------------
(* The state machine: a user of the script calls the merger's public        *)
(* methods one after another on a Drive that earlier runs have written to.  *)

ItemIds == 0 .. Len(InputFiles)     \* 0: an id DriveApp.getFileById rejects

PdfIds == {id \in DOMAIN InputFiles : isPdf(InputFiles[id])}

OutputFolders == {NoFolder, "F1"}

DestinationFolders == {NoFolder, "F2"}

Cycle(s, n) == [i \in 1..n |-> s[((i - 1) % Len(s)) + 1]]

\* item lists long enough for mergePDFs to take the batching path
LongItems ==
  {Cycle(s, BatchThreshold + 1) : s \in [1..2 -> PdfIds]}
    \cup {<<Len(InputFiles)>> \o Cycle(<<1, 2>>, BatchThreshold + 1)}

\* more items than one batch holds, and more batches than one batch holds
MidItems ==
  {Cycle(<<1, 2>>, DefaultBatchSize + 1),
   Cycle(<<1, 2>>, DefaultBatchSize * DefaultBatchSize + 1)}

ItemLists == UNION {[1..n -> ItemIds] : n \in 0..MaxItems} \cup LongItems \cup MidItems

FileLists == UNION {[1..n -> PdfIds] : n \in 1..MaxItems}

Idle ==
  [op |-> "idle", items |-> <<>>, batchSize |-> 0, outputFolder |-> NoFolder,
   answer |-> "YES", fault |-> NoFault, before |-> <<>>, out |-> Start(<<>>)]

Called(op, items, batchSize, outputFolder, answer, fault, out) ==
  [op |-> op, items |-> items, batchSize |-> batchSize, outputFolder |-> outputFolder,
   answer |-> answer, fault |-> fault, before |-> files,
   out |-> [out EXCEPT !.fs = <<>>]]

\* Drive holds the student's files and the outputs that earlier runs left
Init ==
  /\ \E folder \in {RootFolder, "F1", "F2"}, n \in 0..MaxExisting :
       files = InputFiles \o [k \in 1..n |-> OldOutput(folder)]
  /\ destinationFolder = NoFolder
  /\ spreadsheet = NoSpreadsheet
  /\ last = Idle
  /\ instances = <<>>
  /\ _instance = 0

\* the faults that can happen in a call whose fault-free run is clean
FaultsOf(clean) == {fault \in Faults : Fired(fault, clean)}

Choices(both, one) == IF both THEN {one, ~one} ELSE {one}

SetDestinationFolder(folder) ==
  /\ last.op = "idle"
  /\ destinationFolder' = folder
  /\ UNCHANGED <<files, spreadsheet, last, instances, _instance>>

CallMergeMultiplePdfFiles(fileIds) ==
  /\ last.op = "idle"
  /\ \E fault \in FaultsOf(mergePass(Start(files), fileIds, NoFault)) :
       LET out == mergePass(Start(files), fileIds, fault) IN
         /\ files' = out.fs
         /\ last' = Called("mergeMultiplePdfFiles", fileIds, 0, NoFolder, "YES", fault, out)
  /\ UNCHANGED <<destinationFolder, spreadsheet, instances, _instance>>

CallProcessPDFsInBatches(fileIds, batchSize) ==
  /\ last.op = "idle"
  /\ \E fault \in FaultsOf(processPDFsInBatches(Start(files), destinationFolder,
                                                 fileIds, batchSize, NoFault)) :
       LET out == processPDFsInBatches(Start(files), destinationFolder, fileIds,
                                       batchSize, fault) IN
         /\ files' = out.fs
         /\ last' = Called("processPDFsInBatches", fileIds, batchSize, NoFolder, "YES",
                           fault, out)
  /\ UNCHANGED <<destinationFolder, spreadsheet, instances, _instance>>

\* keep: the user answers NO to the prompt, if there is one
\* high: the name iterator hands out the newest of several same-named files
\* inherit: file.makeCopy(name) leaves the copy beside its source
CallMergePDFs(items, outputFolder) ==
  /\ last.op = "idle"
  /\ LET probe == mergePDFs(files, destinationFolder, items, DefaultOutputFileName,
                            outputFolder, "NO", "low", FALSE, NoFault) IN
     \E keep \in Choices(probe.asked, FALSE), high \in Choices(probe.ambiguous, FALSE),
        inherit \in Choices(probe.inherited, FALSE) :
       LET answer == IF keep THEN "NO" ELSE "YES"
           first == IF high THEN "high" ELSE "low"
           clean == mergePDFs(files, destinationFolder, items, DefaultOutputFileName,
                              outputFolder, answer, first, inherit, NoFault)
       IN  \E fault \in FaultsOf(clean) :
             LET out == mergePDFs(files, destinationFolder, items, DefaultOutputFileName,
                                  outputFolder, answer, first, inherit, fault) IN
               /\ files' = out.fs
               /\ last' = Called("mergePDFs", items, 0, outputFolder, answer, fault, out)
  /\ UNCHANGED <<destinationFolder, spreadsheet, instances, _instance>>

Next ==
  \/ \E folder \in DestinationFolders : SetDestinationFolder(folder)
  \/ \E fileIds \in FileLists : CallMergeMultiplePdfFiles(fileIds)
  \/ \E fileIds \in FileLists, batchSize \in 1..MaxBatch :
       CallProcessPDFsInBatches(fileIds, batchSize)
  \/ \E items \in ItemLists, outputFolder \in OutputFolders :
       CallMergePDFs(items, outputFolder)

Spec == Init /\ [][Next]_vars

----------------------------------------------------------------------------
(* What the claims speak of *)

Before == last.before

Result == last.out.result

IsValidItem(fs, item) == item \in DOMAIN fs /\ fs[item].mime = PDF

ValidItems(fs, items) == SelectSeq(items, LAMBDA item : IsValidItem(fs, item))

RejectedItems(fs, items) == SelectSeq(items, LAMBDA item : ~IsValidItem(fs, item))

Decoding(fs, ids) == SelectSeq(ids, LAMBDA id : fs[id].ok)

AllDecode(fs, ids) == \A i \in DOMAIN ids : fs[ids[i]].ok

RECURSIVE PageCountUpTo(_, _, _)
PageCountUpTo(fs, ids, n) ==
  IF n = 0 THEN 0 ELSE PageCountUpTo(fs, ids, n - 1) + Len(fs[ids[n]].pages)

\* the pages of the files that decode, file after file
RECURSIVE PagesInOrder(_, _)
PagesInOrder(fs, ids) ==
  IF ids = <<>> THEN <<>>
  ELSE (IF fs[Head(ids)].ok THEN fs[Head(ids)].pages ELSE <<>>)
         \o PagesInOrder(fs, Tail(ids))

\* the files the call has added to Drive
CreatedFiles == (Len(Before) + 1) .. Len(files)

\* Drive but for the files the call has added is as it was
OldFilesUntouched == SubSeq(files, 1, Len(Before)) = Before

\* the folder a mergePDFs call writes its output to
Destination ==
  LET folder == effectiveOutputFolder(last.outputFolder, destinationFolder)
  IN  IF folder # NoFolder THEN folder ELSE RootFolder

ExistingOutputs == getFilesByName(Before, Destination, DefaultOutputFileName)

MergePDFsCalled == last.op = "mergePDFs"

----------------------------------------------------------------------------
\* C1: when mergeMultiplePdfFiles is given N >= 2 files that all decode and
\* returns, the page count of its output is the sum of the inputs' page
\* counts and page j of the i-th input stands at position (pages of the
\* inputs before i) + j: nothing is dropped, duplicated or reordered.
C1_MergeConcatenatesInOrder ==
  (/\ last.op = "mergeMultiplePdfFiles"
   /\ Len(last.items) >= 2
   /\ AllDecode(Before, last.items)
   /\ ~last.out.threw /\ ~last.out.bytes.empty)
  => LET output == last.out.bytes.pages IN
     /\ Len(output) = PageCountUpTo(Before, last.items, Len(last.items))
     /\ \A i \in DOMAIN last.items :
          \A j \in 1..Len(Before[last.items[i]].pages) :
            output[PageCountUpTo(Before, last.items, i - 1) + j]
              = <<last.items[i], j - 1>>

C1_Witness ==
  /\ last.op = "mergeMultiplePdfFiles"
  /\ Len(last.items) = 3 /\ last.items[1] # last.items[2]
  /\ AllDecode(Before, last.items)
  /\ ~last.out.threw
  /\ Len(last.out.bytes.pages) >= 4

\* the pages one mergeMultiplePdfFiles pass over the list gives, with the
\* library of the call
SinglePass(ids) ==
  mergeMultiplePdfFiles(Before, ids,
                        IF last.fault = DefaultPage THEN "defaultPage" ELSE "none")

\* C2 (as claimed): a processPDFsInBatches call with batchSize < N that returns a document
\* returns the page sequence that one mergeMultiplePdfFiles pass over the
\* same list gives, and so does the file that mergePDFs writes when it has
\* taken the batching path.
C2_BatchingIsTransparent ==
  /\ (/\ last.op = "processPDFsInBatches"
      /\ Len(last.items) >= 2
      /\ last.batchSize < Len(last.items)
      /\ ~last.out.threw /\ last.fault.kind # "empty")
     => last.out.bytes.pages = SinglePass(last.items).bytes.pages
  /\ (/\ last.op = "mergePDFs"
      /\ Len(ValidItems(Before, last.items)) > BatchThreshold
      /\ last.out.exit = "merged" /\ last.fault.kind # "empty")
     => files[last.out.result.file].pages
          = SinglePass(ValidItems(Before, last.items)).bytes.pages

\* a batched call all of whose batches hold a file that decodes
C2_Witness ==
  /\ last.op = "processPDFsInBatches"
  /\ Len(last.items) = 3 /\ last.batchSize = 2
  /\ Len(last.out.tempFiles) = 2
  /\ ~last.out.threw
  /\ last.items[1] # last.items[3]
  /\ Len(last.out.bytes.pages) >= 3

\* C3: a mergePDFs call none of whose items is a fetchable PDF returns a
\* failure whose invalidFiles lists every item, in order, and leaves Drive
\* as it was: no file created, copied or trashed.
C3_NoValidInputFails ==
  (MergePDFsCalled /\ ValidItems(Before, last.items) = <<>>)
  => /\ ~Result.success
     /\ Result.file = NoFile
     /\ Result.invalidFiles.tag = "list"
     /\ Len(Result.invalidFiles.list) = Len(last.items)
     /\ \A i \in DOMAIN last.items : Result.invalidFiles.list[i].id = last.items[i]
     /\ files = Before

C3_Witness ==
  /\ MergePDFsCalled
  /\ ValidItems(Before, last.items) = <<>>
  /\ \E i, j \in DOMAIN last.items :
       last.items[i] \notin DOMAIN Before /\ last.items[j] \in DOMAIN Before
  /\ last.out.exit = "noValid"

\* what the claims C4 to C10 speak of

Valid == ValidItems(Before, last.items)

SomeButNotAllDecode(ids) ==
  Decoding(Before, ids) # <<>> /\ Decoding(Before, ids) # ids

\* the user was shown the collision prompt and chose to keep the existing file
Declined == last.out.asked /\ last.answer = "NO"

\* the call has added one file: a live copy of the one valid input, under the
\* output name, in the output folder if the call has one
OneCopyMade ==
  /\ CreatedFiles = {Len(files)}
  /\ files[Len(files)].name = DefaultOutputFileName
  /\ ~files[Len(files)].trashed
  /\ files[Len(files)].pages = Before[Valid[1]].pages
  /\ effectiveOutputFolder(last.outputFolder, destinationFolder) # NoFolder
       => files[Len(files)].folder
            = effectiveOutputFolder(last.outputFolder, destinationFolder)

C6_DecodeFailuresReported ==
  (MergePDFsCalled /\ last.out.exit = "merged")
  => \A i \in DOMAIN Valid :
       ~Before[Valid[i]].ok
         => \E k \in DOMAIN Result.invalidFiles.list :
              Result.invalidFiles.list[k].id = Valid[i]

\* C7 (as claimed): whenever validation rejects an item, the result of
\* mergePDFs carries the list of the rejected items, on every exit path.
C7_InvalidFilesAlwaysAttached ==
  (MergePDFsCalled /\ RejectedItems(Before, last.items) # <<>>)
  => /\ Result.invalidFiles.tag = "list"
     /\ Len(Result.invalidFiles.list) = Len(RejectedItems(Before, last.items))

\* C8 (as claimed): after a successful mergePDFs call on a destination that
\* held files named outputFileName, with the answer YES, every such file is
\* trashed and the one live file of that name in the destination is the new
\* one.
C8_ReplaceLeavesOneOutput ==
  (MergePDFsCalled /\ Result.success /\ ExistingOutputs # {} /\ last.answer = "YES")
  => /\ \A id \in ExistingOutputs : files[id].trashed
     /\ Result.file \in CreatedFiles
     /\ getFilesByName(files, Destination, DefaultOutputFileName) = {Result.file}

\* C9 (as claimed): when the collision prompt is answered NO, the call leaves
\* Drive as it was and does not report a written file: its result is no
\* success and names no file.
C9_KeepIsReportedAsSkip ==
  (MergePDFsCalled /\ Declined)
  => /\ files = Before
     /\ ~Result.success
     /\ Result.file = NoFile

\* the temporary batch files the call has created
TempFilesCreated == {id \in CreatedFiles : files[id].name # DefaultOutputFileName}

BatchingPathTaken ==
  \/ last.op = "processPDFsInBatches" /\ Len(last.items) > last.batchSize
  \/ MergePDFsCalled /\ Len(Valid) > BatchThreshold

\* C10 (as claimed): once a call that took the batching path has returned or
\* thrown, every temporary batch file it created is trashed.
C10_TempFilesAlwaysTrashed ==
  BatchingPathTaken => \A id \in TempFilesCreated : files[id].trashed

\* C10 (amended): once a call that took the batching path has returned or
\* thrown, setTrashed has been called on every temporary batch file it
\* created, and each of them is trashed unless that setTrashed call threw.
C10_TempFilesTrashedUnlessTrashFails ==
  BatchingPathTaken
  => /\ \A id \in TempFilesCreated : files[id].trashed \/ id \in last.out.trashFailed
     /\ last.out.nTrash = Cardinality(TempFilesCreated)
     /\ last.fault.kind # "trash" => \A id \in TempFilesCreated : files[id].trashed

C10_Witness ==
  /\ last.op = "processPDFsInBatches"
  /\ Len(last.items) > last.batchSize
  /\ last.out.threw
  /\ Cardinality(TempFilesCreated) = 2
  /\ \A id \in TempFilesCreated : files[id].trashed

----------------------------------------------------------------------------
(* DriveManager.findFilesBySubstring (src/DriveManager.js) over a folder    *)
(* tree.  A file name and a substring are sequences of characters, so that  *)
(* startsWith, endsWith and includes are computed, not assumed.             *)

MaxSubstrings == 2  \* length of the substring lists handed to the search

ZIP == "application/x-zip-compressed"

BadFolderId == "bad"    \* an id DriveApp.getFolderById rejects

\* S holds S1 and S3, S1 holds S2; T lies outside S
SubFolders ==
  [folder \in {"S", "S1", "S2", "S3", "T"} |->
     IF folder = "S" THEN <<"S1", "S3">> ELSE IF folder = "S1" THEN <<"S2">> ELSE <<>>]

SearchFiles ==
  << NewFile(<<"A", "B">>, "S", PDF, PagesOf(1, 1), TRUE),
     NewFile(<<"B", "A">>, "S", PDF, PagesOf(2, 1), TRUE),
     NewFile(<<"A">>, "S", GOOGLE_DOCS, <<>>, FALSE),
     NewFile(<<"A", "A">>, "S1", PDF, PagesOf(4, 1), TRUE),
     NewFile(<<"B">>, "S2", PDF, PagesOf(5, 1), TRUE),
     NewFile(<<"B", "B">>, "S3", GOOGLE_DOCS, <<>>, FALSE),
     NewFile(<<"A", "B">>, "T", PDF, PagesOf(7, 1), TRUE) >>

Reverse(s) == [i \in 1..Len(s) |-> s[Len(s) + 1 - i]]

\* an iterator hands its elements out in an order Drive chooses
InOrder(s, order) == IF order = "high" THEN Reverse(s) ELSE s

\* currentFolder.getFiles()
getFiles(fs, folder, order) ==
  InOrder(Ascending({id \in DOMAIN fs : fs[id].folder = folder /\ ~fs[id].trashed}), order)

\* currentFolder.getFolders()
getFolders(folder, order) == InOrder(SubFolders[folder], order)

\* a getAllFiles that never descends into the subfolders
RECURSIVE getAllFilesFlat(_, _, _, _, _, _)
getAllFilesFlat(fs, currentFolder, recursive, order, fault, acc) ==
  IF acc.threw THEN acc
  ELSE IF Hits(fault, "getFiles", acc.calls + 1) THEN [acc EXCEPT !.threw = TRUE]
  ELSE [acc EXCEPT !.allFiles = @ \o getFiles(fs, currentFolder, order), !.calls = @ + 1]

\* getAllFiles: the files of the folder, then those of each subfolder in turn
RECURSIVE getAllFiles(_, _, _, _, _, _), getAllFilesOfEach(_, _, _, _, _, _, _)
getAllFiles(fs, currentFolder, recursive, order, fault, acc) ==
  IF acc.threw THEN acc
  ELSE IF Hits(fault, "getFiles", acc.calls + 1) THEN [acc EXCEPT !.threw = TRUE]
  ELSE IF recursive
    THEN getAllFilesOfEach(fs, getFolders(currentFolder, order), 1, recursive, order, fault,
           [acc EXCEPT !.allFiles = @ \o getFiles(fs, currentFolder, order),
                       !.calls = @ + 1])
    ELSE [acc EXCEPT !.allFiles = @ \o getFiles(fs, currentFolder, order), !.calls = @ + 1]

getAllFilesOfEach(fs, subFolders, k, recursive, order, fault, acc) ==
  IF k > Len(subFolders) THEN acc
  ELSE getAllFilesOfEach(fs, subFolders, k + 1, recursive, order, fault,
         getAllFiles(fs, subFolders[k], recursive, order, fault, acc))

NoFilesYet == [threw |-> FALSE, allFiles |-> <<>>, calls |-> 0]

startsWith(fileName, substring) ==
  /\ Len(substring) <= Len(fileName)
  /\ SubSeq(fileName, 1, Len(substring)) = substring

endsWith(fileName, substring) ==
  /\ Len(substring) <= Len(fileName)
  /\ SubSeq(fileName, Len(fileName) - Len(substring) + 1, Len(fileName)) = substring

includes(fileName, substring) ==
  \E i \in 0..(Len(fileName) - Len(substring)) :
    SubSeq(fileName, i + 1, i + Len(substring)) = substring

toLowerCase(searchType) == IF searchType = "PREFIX" THEN "prefix" ELSE searchType

isMatch(fileName, substring, searchType) ==
  IF toLowerCase(searchType) = "prefix" THEN startsWith(fileName, substring)
  ELSE IF toLowerCase(searchType) = "suffix" THEN endsWith(fileName, substring)
  ELSE includes(fileName, substring)

NoMimeTypes == <<"null">>     \* mimeTypes = null

Elements(s) == {s[i] : i \in DOMAIN s}

\* !mimeTypes || mimeTypes.includes(file.getMimeType())
mimeTypeAllowed(mimeTypes, file) ==
  mimeTypes = NoMimeTypes \/ file.mime \in Elements(mimeTypes)

\* the body of the two loops: push the file unless it is there already
pushIfMatch(fs, fileId, substring, mimeTypes, searchType, matchingFiles) ==
  IF /\ isMatch(fs[fileId].name, substring, searchType)
     /\ mimeTypeAllowed(mimeTypes, fs[fileId])
     /\ fileId \notin Elements(matchingFiles)
  THEN Append(matchingFiles, fileId)
  ELSE matchingFiles

RECURSIVE matchEachFile(_, _, _, _, _, _, _)
matchEachFile(fs, allFiles, k, substring, mimeTypes, searchType, matchingFiles) ==
  IF k > Len(allFiles) THEN matchingFiles
  ELSE matchEachFile(fs, allFiles, k + 1, substring, mimeTypes, searchType,
         pushIfMatch(fs, allFiles[k], substring, mimeTypes, searchType, matchingFiles))

RECURSIVE matchEachSubstring(_, _, _, _, _, _, _)
matchEachSubstring(fs, allFiles, substrings, j, mimeTypes, searchType, matchingFiles) ==
  IF j > Len(substrings) THEN matchingFiles
  ELSE matchEachSubstring(fs, allFiles, substrings, j + 1, mimeTypes, searchType,
         matchEachFile(fs, allFiles, 1, substrings[j], mimeTypes, searchType,
                       matchingFiles))

\* the loops the other way round: for each file, for each substring
RECURSIVE matchFileByFile(_, _, _, _, _, _, _)
matchFileByFile(fs, allFiles, substrings, k, mimeTypes, searchType, matchingFiles) ==
  IF k > Len(allFiles) THEN matchingFiles
  ELSE matchFileByFile(fs, allFiles, substrings, k + 1, mimeTypes, searchType,
         matchEachSubstring(fs, <<allFiles[k]>>, substrings, 1, mimeTypes, searchType,
                            matchingFiles))

collectInFileOrder(fs, allFiles, substrings, mimeTypes, searchType) ==
  matchFileByFile(fs, allFiles, substrings, 1, mimeTypes, searchType, <<>>)

\* lines 248-280: for each substring in the order given, for each file
collectMatchingFiles(fs, allFiles, substrings, mimeTypes, searchType) ==
  matchEachSubstring(fs, allFiles, substrings, 1, mimeTypes, searchType, <<>>)

\* what the caller gets: an array of files, or a File that is no array
Returned(threw, isArray, items, logged) ==
  [threw |-> threw, isArray |-> isArray, items |-> items, logged |-> logged]

\* the try block of findFilesBySubstring
searchFolder(fs, folderId, substrings, mimeTypes, searchType, listed) ==
  IF folderId = BadFolderId \/ listed.threw THEN Returned(TRUE, TRUE, <<>>, FALSE)
  ELSE Returned(FALSE, TRUE,
         collectMatchingFiles(fs, listed.allFiles, substrings, mimeTypes, searchType),
         FALSE)

listFolder(fs, folderId, recursive, order, fault) ==
  IF folderId = BadFolderId THEN NoFilesYet
  ELSE getAllFiles(fs, folderId, recursive, order, fault, NoFilesYet)

\* catch (e) { console.error(...); return []; }
returnEmptyOnError(tried) ==
  IF tried.threw THEN Returned(FALSE, TRUE, <<>>, TRUE) ELSE tried

\* a findFilesBySubstring of src/unnamed/part_000 that lets the error escape
findFileInfoUncaught(fs, folderId, substrings, recursive, mimeTypes, searchType, order, fault) ==
  searchFolder(fs, folderId, substrings, mimeTypes, searchType,
               listFolder(fs, folderId, recursive, order, fault))

\* findFilesBySubstring of src/unnamed/part_000: always an array of {id, name, ...}
findFileInfoBySubstring(fs, folderId, substrings, recursive, mimeTypes, searchType, order, fault) ==
  returnEmptyOnError(
    searchFolder(fs, folderId, substrings, mimeTypes, searchType,
                 listFolder(fs, folderId, recursive, order, fault)))

\* if (matchingFiles.length === 1) return matchingFiles[0];
returnSingleFile(tried) ==
  IF ~tried.threw /\ Len(tried.items) = 1 THEN [tried EXCEPT !.isArray = FALSE] ELSE tried

\* a findFilesBySubstring without its catch
findFilesUncaught(fs, folderId, substrings, recursive, mimeTypes, searchType, order, fault) ==
  returnSingleFile(
    searchFolder(fs, folderId, substrings, mimeTypes, searchType,
                 listFolder(fs, folderId, recursive, order, fault)))

\* findFilesBySubstring of src/DriveManager.js
findFilesBySubstring(fs, folderId, substrings, recursive, mimeTypes, searchType, order, fault) ==
  returnEmptyOnError(returnSingleFile(
    searchFolder(fs, folderId, substrings, mimeTypes, searchType,
                 listFolder(fs, folderId, recursive, order, fault))))

\* files.map(file => file.id)
getFileIdsBySubstring(fs, folderId, substrings, recursive, mimeTypes, searchType, order, fault) ==
  findFileInfoBySubstring(fs, folderId, substrings, recursive, mimeTypes, searchType,
                          order, fault).items

----------------------------------------------------------------------------
(* The search as a state machine: one call of findFilesBySubstring over the *)
(* folder tree, with every combination of its parameters.                   *)

SearchFolderIds == {"S", "S1", BadFolderId}

Substrings == {<<>>, <<"A">>, <<"B">>, <<"A", "B">>}

SubstringLists == UNION {[1..n -> Substrings] : n \in 0..MaxSubstrings}

MimeTypeLists == {NoMimeTypes, <<PDF>>, <<>>}

SearchTypes == {"prefix", "suffix", "contains", "PREFIX"}

InitFind ==
  /\ files = SearchFiles
  /\ destinationFolder = NoFolder
  /\ spreadsheet = NoSpreadsheet
  /\ last = [op |-> "idle"]
  /\ instances = <<>>
  /\ _instance = 0

\* the getFiles calls that can fail are those the fault-free traversal makes
TraversalFaults(folderId, recursive, order) ==
  {NoFault} \cup
  {[kind |-> "getFiles", at |-> n] :
     n \in 1..Min(MaxFaultAt, listFolder(files, folderId, recursive, order, NoFault).calls)}

CallFindFilesBySubstring(folderId, substrings, recursive, mimeTypes, searchType) ==
  /\ last.op = "idle"
  /\ \E order \in {"low", "high"} :
       \E fault \in TraversalFaults(folderId, recursive, order) :
         last' = [op |-> "findFilesBySubstring", folderId |-> folderId,
                  substrings |-> substrings, recursive |-> recursive,
                  mimeTypes |-> mimeTypes, searchType |-> searchType, order |-> order,
                  fault |-> fault,
                  out |-> findFilesBySubstring(files, folderId, substrings, recursive,
                                               mimeTypes, searchType, order, fault)]
  /\ UNCHANGED <<files, destinationFolder, spreadsheet, instances, _instance>>

NextFind ==
  \E folderId \in SearchFolderIds, substrings \in SubstringLists, recursive \in BOOLEAN,
     mimeTypes \in MimeTypeLists, searchType \in SearchTypes :
    CallFindFilesBySubstring(folderId, substrings, recursive, mimeTypes, searchType)

SpecFind == InitFind /\ [][NextFind]_vars

----------------------------------------------------------------------------
(* What the claims about the search speak of *)

FindCalled == last.op = "findFilesBySubstring"

Found == last.out.items

SearchFailed == last.folderId = BadFolderId \/ last.fault # NoFault

\* the order in which the traversal of the call met the files
Traversal ==
  listFolder(files, last.folderId, last.recursive, last.order, NoFault).allFiles

PositionIn(s, x) == SetMin({i \in DOMAIN s : s[i] = x})

MatchedBy(id) ==
  {j \in DOMAIN last.substrings :
     isMatch(files[id].name, last.substrings[j], last.searchType)}

RECURSIVE Descendants(_)
Descendants(folder) ==
  {folder} \cup UNION {Descendants(SubFolders[folder][k]) : k \in DOMAIN SubFolders[folder]}

InScope(id) ==
  IF last.recursive THEN files[id].folder \in Descendants(last.folderId)
  ELSE files[id].folder = last.folderId

Matching ==
  {id \in DOMAIN files :
     /\ InScope(id)
     /\ MatchedBy(id) # {}
     /\ last.mimeTypes # NoMimeTypes => files[id].mime \in Elements(last.mimeTypes)}

\* C11: findFilesBySubstring returns no file twice, and f comes before g in
\* the result exactly when the first substring that f matches comes before
\* the first that g matches, or they are the same substring and the
\* traversal met f before g.
C11_DiscoveryOrder ==
  FindCalled =>
    \A i, j \in DOMAIN Found :
      i < j =>
        /\ Found[i] # Found[j]
        /\ \/ SetMin(MatchedBy(Found[i])) < SetMin(MatchedBy(Found[j]))
           \/ /\ SetMin(MatchedBy(Found[i])) = SetMin(MatchedBy(Found[j]))
              /\ PositionIn(Traversal, Found[i]) < PositionIn(Traversal, Found[j])

\* a file that two substrings match is returned once, and the result is not
\* in traversal order
C11_Witness ==
  /\ FindCalled
  /\ Len(Found) >= 3
  /\ \E i \in DOMAIN Found : Cardinality(MatchedBy(Found[i])) = 2
  /\ \E i, j \in DOMAIN Found :
       i < j /\ PositionIn(Traversal, Found[i]) > PositionIn(Traversal, Found[j])

\* C12: findFilesBySubstring returns a list whatever its input, as long as
\* the number of distinct files that match: empty when nothing matches,
\* of one element when one file matches.
C12_AlwaysAList ==
  FindCalled /\ ~SearchFailed =>
    last.out.isArray /\ Len(Found) = Cardinality(Matching)

\* C13: findFilesBySubstring never throws; when the folder id does not
\* resolve or the traversal of the folder or of a subfolder fails, it logs
\* the error and returns the empty list.
C13_NeverThrows ==
  FindCalled =>
    /\ ~last.out.threw
    /\ SearchFailed => last.out.isArray /\ Found = <<>> /\ last.out.logged

\* the traversal fails in a subfolder after files that match were met
C13_Witness ==
  /\ FindCalled
  /\ last.fault.kind = "getFiles"
  /\ last.fault.at >= 2
  /\ Matching # {}
  /\ Found = <<>>
  /\ ~last.out.threw

\* C14: the files returned are those whose name matches one of the
\* substrings under the search mode and whose MIME type is in the filter, if
\* there is one: among the files directly in the folder when recursive is
\* false, among those of the folder and all its descendants when it is true.
C14_ExactlyTheMatchingFiles ==
  FindCalled =>
    Elements(Found) = IF SearchFailed THEN {} ELSE Matching

\* a recursive search returns a file two levels down, leaves out a file whose
\* name matches but whose type is filtered, and one outside the folder
C14_Witness ==
  /\ FindCalled
  /\ last.recursive
  /\ \E id \in Elements(Found) : files[id].folder = "S2"
  /\ \E id \in DOMAIN files :
       InScope(id) /\ MatchedBy(id) # {} /\ id \notin Elements(Found)
  /\ \E id \in DOMAIN files :
       ~InScope(id) /\ MatchedBy(id) # {} /\ id \notin Elements(Found)

----------------------------------------------------------------------------
(* The spreadsheet (SpreadsheetManager) and PDFMerger.mergePDFsFromPrefixSheet *)
(* The values of a sheet are its rows; a cell is a sequence of characters.   *)

MaxCols == 2        \* columns of the Prefixes sheet
MaxStudents == 2    \* student rows handed to mergePDFsForAllStudents

FOLDER == "application/vnd.google-apps.folder"

Undefined == "undefined"

Blank == <<>>       \* the empty cell, the empty string

\* sheet.getDataRange().getValues() of a sheet nothing was written to
EmptySheet == << <<Blank>> >>

\* spreadsheet.getSheetByName(name) || spreadsheet.insertSheet(name)
getOrInsertSheet(ss, name) ==
  IF name \in DOMAIN ss THEN ss ELSE ss @@ (name :> EmptySheet)

\* getSpreadsheetSheets: the three sheets exist afterwards; two are returned
getSpreadsheetSheets(ss) ==
  [spreadsheet |->
     getOrInsertSheet(getOrInsertSheet(getOrInsertSheet(ss, "Student Info"),
                                       "Course Info"), "Prefixes"),
   sheets |-> [studentSheet |-> "Student Info", courseSheet |-> "Course Info"]]

\* object[name] of a JavaScript object
property(object, name) == IF name \in DOMAIN object THEN object[name] ELSE Undefined

\* { ...a, ...b }: the properties of b win
spread(a, b) == b @@ a

RECURSIVE trimStart(_)
trimStart(s) == IF s # <<>> /\ Head(s) = " " THEN trimStart(Tail(s)) ELSE s

RECURSIVE trimEnd(_)
trimEnd(s) ==
  IF s # <<>> /\ s[Len(s)] = " " THEN trimEnd(SubSeq(s, 1, Len(s) - 1)) ELSE s

trim(s) == trimEnd(trimStart(s))

\* for (let row = 1; row < data.length; row++) if (cell && trim(cell)) push
\* (row and col count from 1 here, from 0 in the code)
RECURSIVE collectPrefixes(_, _, _, _)
collectPrefixes(data, col, row, prefixes) ==
  IF row > Len(data) THEN prefixes
  ELSE collectPrefixes(data, col, row + 1,
         IF data[row][col] # Blank /\ trim(data[row][col]) # Blank
         THEN Append(prefixes, trim(data[row][col]))
         ELSE prefixes)

\* the k-th answer of the user to the prompts of one run
answerAt(answers, k) == IF k \in DOMAIN answers THEN answers[k] ELSE "YES"

\* a run of mergePDFsFromPrefixSheet: Drive, spreadsheet, prompts shown so far,
\* the mergePDFs calls made and the results pushed
SheetRun(fs, ss, prompts) ==
  [fs |-> fs, spreadsheet |-> ss, prompts |-> prompts, calls |-> <<>>, results |-> <<>>,
   result |-> [success |-> FALSE, message |-> ""]]

\* results.push({category, success: false, message: "No matching PDF files ..."})
pushNoMatch(run, category) ==
  [run EXCEPT !.results =
     Append(@, [category |-> category, success |-> FALSE, message |-> "NoMatchingPdf"])]

\* results.push({category: headers[col], ...mergeResult})
pushMerged(run, category, call, merged) ==
  [run EXCEPT !.fs = merged.fs,
              !.prompts = @ + (IF merged.asked THEN 1 ELSE 0),
              !.calls = Append(@, call),
              !.results = Append(@, spread([category |-> category], merged.result))]

\* from if (fileIds.length === 0) on; the merge itself is taken without faults
mergeCategory(run, ctx, category, prefixes, fileIds) ==
  IF Len(fileIds) = 0 THEN pushNoMatch(run, category)
  ELSE pushMerged(run, category,
         [outputFileName |-> category \o <<".pdf">>, fileIds |-> fileIds,
          outputFolder |-> ctx.outputFolder, substrings |-> prefixes,
          mimeTypes |-> <<PDF>>, searchType |-> "prefix", recursive |-> ctx.recursive],
         mergePDFs(run.fs, ctx.dest, fileIds, category \o <<".pdf">>, ctx.outputFolder,
                   answerAt(ctx.answers, run.prompts + 1), "low", FALSE, NoFault))

\* if (prefixes.length === 0) continue; then getFileIdsBySubstring
searchCategory(run, ctx, category, prefixes) ==
  IF Len(prefixes) = 0 THEN run
  ELSE mergeCategory(run, ctx, category, prefixes,
         getFileIdsBySubstring(run.fs, ctx.sourceFolder, prefixes, ctx.recursive, <<PDF>>,
                               "prefix", ctx.order, NoFault))

\* the body of the loop over the columns
processColumn(run, ctx, data, col) ==
  IF data[1][col] = Blank THEN run
  ELSE searchCategory(run, ctx, data[1][col], collectPrefixes(data, col, 2, <<>>))

RECURSIVE eachColumn(_, _, _, _)
eachColumn(run, ctx, data, col) ==
  IF col > Len(data[1]) THEN run
  ELSE eachColumn(processColumn(run, ctx, data, col), ctx, data, col + 1)

sheetFailure(run, message) ==
  [run EXCEPT !.result = [success |-> FALSE, message |-> message]]

sheetSuccess(run) ==
  [run EXCEPT !.result = [success |-> TRUE, message |-> "Merged", results |-> run.results]]

\* from const data = prefixSheet.getDataRange().getValues() on
mergeSheetData(run, ctx, data) ==
  IF Len(data) < 2 THEN sheetFailure(run, "EmptySheet")
  ELSE sheetSuccess(eachColumn(run, ctx, data, 1))

\* const { prefixSheet } = ...; if (!prefixSheet) return {success: false, ...}
mergeFromSheets(run, ctx, got) ==
  IF property(got.sheets, "prefixSheet") = Undefined
  THEN sheetFailure([run EXCEPT !.spreadsheet = got.spreadsheet], "NoPrefixSheet")
  ELSE mergeSheetData([run EXCEPT !.spreadsheet = got.spreadsheet], ctx,
                      got.spreadsheet[property(got.sheets, "prefixSheet")])

\* throws: the spreadsheet service fails; the catch returns a failure
mergePDFsFromPrefixSheet(run, ctx, throws) ==
  IF throws THEN sheetFailure(run, "Error")
  ELSE mergeFromSheets(run, ctx, getSpreadsheetSheets(run.spreadsheet))

----------------------------------------------------------------------------
(* Folders that the script creates are Drive entries of the folder type; the *)
(* id of such a folder is made from its index.  DriveManager.createFolder    *)

FolderId(id) == "folder" \o ToString(id)

\* parentFolder.getFoldersByName(name): the live folders of that name
getFoldersByName(fs, parent, name) ==
  {id \in DOMAIN fs :
     fs[id].mime = FOLDER /\ fs[id].folder = parent /\ ~fs[id].trashed /\ fs[id].name = name}

RECURSIVE trashEachFolder(_, _, _)
trashEachFolder(fs, ids, k) ==
  IF k > Len(ids) THEN fs ELSE trashEachFolder(setTrashed(fs, ids[k]), ids, k + 1)

\* proceed is the value returned; a prompt is shown when the name is taken
checkAndHandleExistingFolder(acc, parentFolder, newFolderName, answer) ==
  IF getFoldersByName(acc.fs, parentFolder, newFolderName) # {}
  THEN IF answer = "YES"
       THEN [acc EXCEPT !.prompts = @ + 1, !.proceed = TRUE,
               !.fs = trashEachFolder(@,
                        Ascending(getFoldersByName(acc.fs, parentFolder, newFolderName)), 1)]
       ELSE [acc EXCEPT !.prompts = @ + 1, !.proceed = FALSE]
  ELSE [acc EXCEPT !.proceed = TRUE]

\* parentFolder.createFolder(folderName)
createNewFolder(acc, parentFolder, folderName) ==
  [acc EXCEPT !.fs = Append(@, NewFile(folderName, parentFolder, FOLDER, <<>>, FALSE)),
              !.folder = FolderId(Len(acc.fs) + 1)]

\* parentFolder.getFoldersByName(folderName).next()
firstFolderByName(acc, parentFolder, folderName, order) ==
  [acc EXCEPT !.folder =
     FolderId(InOrder(Ascending(getFoldersByName(acc.fs, parentFolder, folderName)),
                      order)[1])]

createOrReturnFolder(checked, parentFolder, folderName, order) ==
  IF checked.proceed THEN createNewFolder(checked, parentFolder, folderName)
  ELSE firstFolderByName(checked, parentFolder, folderName, order)

\* acc.folder is the folder returned
createFolder(acc, parentFolder, folderName, answer, order) ==
  createOrReturnFolder(checkAndHandleExistingFolder(acc, parentFolder, folderName, answer),
                       parentFolder, folderName, order)

\* DriveManager.createFolderInParentFolder has callers only: it is taken to
\* create the named folder in the parent or, the user declining, to reuse it
createFolderInParentFolder(acc, parentFolder, folderName, answer, order) ==
  createFolder(acc, parentFolder, folderName, answer, order)

----------------------------------------------------------------------------
(* PDFMerger.mergePDFsForAllStudents *)

StartRow == 3               \* for (let row = 3; ...
folderIdColumnIndex == 2
nameColumnIndex == 0
destinationNameColumnIndex == 3

DefaultFolderName == <<"MergedPDFs">>

\* a run of mergePDFsForAllStudents: folder is the last folder obtained,
\* invoked the category merges started
StudentsRun(fs, ss) ==
  [fs |-> fs, spreadsheet |-> ss, prompts |-> 0, nCreate |-> 0, nSheets |-> 0,
   proceed |-> TRUE, folder |-> NoFolder, threw |-> FALSE,
   studentResults |-> <<>>, invoked |-> <<>>,
   result |-> [success |-> FALSE, message |-> ""]]

\* studentName || `Row ${row + 1}`
nameOrRow(studentName, row) ==
  IF studentName = "" THEN "Row " \o ToString(row + 1) ELSE studentName

pushReport(acc, report) == [acc EXCEPT !.studentResults = Append(@, report)]

\* no catch around the work for one student: the error goes to the outer catch
rethrowError(acc, studentName) == [acc EXCEPT !.threw = TRUE]

\* the catch (e) around the work for one student
pushError(acc, studentName) ==
  pushReport(acc, [student |-> studentName, success |-> FALSE, message |-> "Error"])

\* a folder name that ignores the row's own
folderNameAlwaysDefault(destinationFolderName) == DefaultFolderName

\* destinationFolderName || "MergedPDFs"
folderNameOr(destinationFolderName) ==
  IF destinationFolderName = Blank THEN DefaultFolderName ELSE destinationFolderName

\* studentResults.push({student, sourceFolderId, outputFolderId, ...mergeResult})
pushMergeReport(acc, studentName, sourceFolderId, ctx, run) ==
  [acc EXCEPT
     !.fs = run.fs, !.spreadsheet = run.spreadsheet, !.prompts = run.prompts,
     !.nSheets = @ + 1,
     !.invoked = Append(@, [student |-> studentName, sourceFolder |-> ctx.sourceFolder,
                            outputFolder |-> ctx.outputFolder,
                            recursive |-> ctx.recursive, calls |-> run.calls]),
     !.studentResults =
        Append(@, spread([student |-> studentName, sourceFolderId |-> sourceFolderId,
                          outputFolderId |-> ctx.outputFolder], run.result))]

\* await this.mergePDFsFromPrefixSheet(sourceFolder, mergedPDFsFolder, recursive)
mergeIntoFolder(created, studentName, sourceFolderId, ctx, fault) ==
  pushMergeReport(created, studentName, sourceFolderId, ctx,
    mergePDFsFromPrefixSheet(SheetRun(created.fs, created.spreadsheet, created.prompts),
                             ctx, Hits(fault, "sheets", created.nSheets + 1)))

\* what mergePDFsFromPrefixSheet is given for one student
sheetContext(created, env, sourceFolderId) ==
  [dest |-> env.dest, sourceFolder |-> sourceFolderId, outputFolder |-> created.folder,
   recursive |-> env.recursive, answers |-> env.answers, order |-> env.order]

mergeIntoCreated(created, env, studentName, sourceFolderId, fault) ==
  mergeIntoFolder(created, studentName, sourceFolderId,
                  sheetContext(created, env, sourceFolderId), fault)

\* the try block for one student, once both folders have resolved
mergeStudent(acc, env, studentName, sourceFolderId, destinationFolderName, fault) ==
  IF Hits(fault, "createFolder", acc.nCreate + 1)
  THEN pushError([acc EXCEPT !.nCreate = @ + 1], studentName)
  ELSE mergeIntoCreated(
         createFolderInParentFolder([acc EXCEPT !.nCreate = @ + 1],
                                    env.destinationFolderId,
                                    folderNameOr(destinationFolderName),
                                    answerAt(env.answers, acc.prompts + 1), env.order),
         env, studentName, sourceFolderId, fault)

\* the body of the loop over the rows (row counts from 0, as in the code)
processStudent(acc, env, studentName, sourceFolderId, destinationFolderName, row, fault) ==
  IF sourceFolderId = ""
  THEN pushReport(acc, [student |-> nameOrRow(studentName, row), success |-> FALSE,
                        message |-> "NoFolderId"])
  ELSE IF sourceFolderId = BadFolderId \/ env.destinationFolderId = BadFolderId
  THEN pushError(acc, studentName)
  ELSE mergeStudent(acc, env, studentName, sourceFolderId, destinationFolderName, fault)

\* a loop that gives up at the first row without a folder id
RECURSIVE eachStudentUntilMissing(_, _, _, _, _)
eachStudentUntilMissing(acc, env, studentData, row, fault) ==
  IF acc.threw \/ row >= Len(studentData) THEN acc
  ELSE IF studentData[row + 1][folderIdColumnIndex + 1] = "" THEN acc
  ELSE eachStudentUntilMissing(
         processStudent(acc, env, studentData[row + 1][nameColumnIndex + 1],
                        studentData[row + 1][folderIdColumnIndex + 1],
                        studentData[row + 1][destinationNameColumnIndex + 1], row, fault),
         env, studentData, row + 1, fault)

\* for (let row = 3; row < studentData.length; row++)
RECURSIVE eachStudent(_, _, _, _, _)
eachStudent(acc, env, studentData, row, fault) ==
  IF acc.threw \/ row >= Len(studentData) THEN acc
  ELSE eachStudent(
         processStudent(acc, env, studentData[row + 1][nameColumnIndex + 1],
                        studentData[row + 1][folderIdColumnIndex + 1],
                        studentData[row + 1][destinationNameColumnIndex + 1], row, fault),
         env, studentData, row + 1, fault)

studentsSuccess(acc) ==
  [acc EXCEPT !.result = [success |-> TRUE, message |-> "Processed",
                          studentResults |-> acc.studentResults]]

\* the outer catch (e)
studentsFailure(acc) ==
  [acc EXCEPT !.threw = FALSE, !.result = [success |-> FALSE, message |-> "Error"]]

returnStudents(ran) == IF ran.threw THEN studentsFailure(ran) ELSE studentsSuccess(ran)

\* studentData: [isNull, rows]; a null studentData fails at studentData[0]
mergePDFsForAllStudents(fs, ss, env, studentData, fault) ==
  IF studentData.isNull THEN studentsFailure(StudentsRun(fs, ss))
  ELSE returnStudents(eachStudent(StudentsRun(fs, ss), env, studentData.rows, StartRow,
                                  fault))

----------------------------------------------------------------------------
(* The category merge as a state machine: one call of                       *)
(* mergePDFsFromPrefixSheet with the Prefixes sheet as the user left it.    *)

\* a column of the Prefixes sheet: its label, then its cells
AllColumns ==
  << << <<"X">>, <<"A">>, Blank >>,                 \* files match
     << Blank, <<"B">>, <<"A">> >>,                 \* no label
     << <<"Y">>, <<" ">>, Blank >>,                 \* a label and no substring
     << <<"Z">>, <<" ", "B", "B">>, <<"C">> >> >>   \* substrings that no PDF matches

Columns == Elements(AllColumns)

ColumnLists == UNION {[1..n -> Columns] : n \in 1..MaxCols}

\* the values of the sheet that has these columns
TableOf(columns) ==
  [row \in 1..Len(columns[1]) |-> [col \in 1..Len(columns) |-> columns[col][row]]]

Tables == {TableOf(columns) : columns \in ColumnLists} \cup {<< <<<<"X">>, <<"Y">>>> >>}

WithSheets(table) ==
  ("Prefixes" :> table) @@ ("Student Info" :> EmptySheet) @@ ("Course Info" :> EmptySheet)

Spreadsheets == {WithSheets(table) : table \in Tables} \cup {NoSpreadsheet}

InitSheet ==
  /\ files = SearchFiles
  /\ destinationFolder = NoFolder
  /\ spreadsheet \in Spreadsheets
  /\ last = [op |-> "idle"]
  /\ instances = <<>>
  /\ _instance = 0

CallMergePDFsFromPrefixSheet(sourceFolder, outputFolder, recursive, throws) ==
  /\ last.op = "idle"
  /\ LET ctx == [dest |-> destinationFolder, sourceFolder |-> sourceFolder,
                 outputFolder |-> outputFolder, recursive |-> recursive,
                 answers |-> <<>>, order |-> "low"]
         probe == mergePDFsFromPrefixSheet(SheetRun(files, spreadsheet, 0), ctx, throws)
     IN \E answers \in [1..probe.prompts -> {"YES", "NO"}] :
          LET out == mergePDFsFromPrefixSheet(SheetRun(files, spreadsheet, 0),
                                              [ctx EXCEPT !.answers = answers], throws)
          IN /\ files' = out.fs
             /\ spreadsheet' = out.spreadsheet
             /\ last' = [op |-> "mergePDFsFromPrefixSheet", sourceFolder |-> sourceFolder,
                         outputFolder |-> outputFolder, recursive |-> recursive,
                         throws |-> throws, answers |-> answers, before |-> files,
                         sheets |-> spreadsheet, out |-> [out EXCEPT !.fs = <<>>]]
  /\ UNCHANGED <<destinationFolder, instances, _instance>>

NextSheet ==
  \E sourceFolder \in {"S", "S1"}, outputFolder \in {NoFolder, "D"},
     recursive \in BOOLEAN, throws \in BOOLEAN :
    CallMergePDFsFromPrefixSheet(sourceFolder, outputFolder, recursive, throws)

SpecSheet == InitSheet /\ [][NextSheet]_vars

----------------------------------------------------------------------------
(* What the claims about the category merge speak of *)

SheetCalled == last.op = "mergePDFsFromPrefixSheet" /\ ~last.throws

\* the grouping table the call found
Grouping == IF "Prefixes" \in DOMAIN last.sheets THEN last.sheets["Prefixes"] ELSE EmptySheet

SubstringCells(col) ==
  {row \in 2..Len(Grouping) : trim(Grouping[row][col]) # Blank}

\* the columns with a label and a substring, in column order
Categories ==
  Ascending({col \in 1..Len(Grouping[1]) :
               Grouping[1][col] # Blank /\ SubstringCells(col) # {}})

IsUnder(folder, top) ==
  IF last.recursive THEN folder \in Descendants(top) ELSE folder = top

\* the PDFs of the source folder that a substring of the column is a prefix of
CategoryFiles(col) ==
  {id \in DOMAIN last.before :
     /\ IsUnder(last.before[id].folder, last.sourceFolder)
     /\ last.before[id].mime = PDF
     /\ \E row \in SubstringCells(col) :
          startsWith(last.before[id].name, trim(Grouping[row][col]))}

Entries ==
  IF "results" \in DOMAIN last.out.result THEN last.out.result.results ELSE <<>>

Merging == SelectSeq(Categories, LAMBDA col : CategoryFiles(col) # {})

\* C15: mergePDFsFromPrefixSheet returns one entry for each column with a
\* label and a substring, in column order; for each such column with
\* matching files it calls mergePDFs once, with the name <label>.pdf and the
\* files found by prefix among the PDFs; it calls mergePDFs for no other column.
C15_OneEntryPerCategory ==
  SheetCalled =>
    /\ Len(Entries) = Len(Categories)
    /\ \A k \in DOMAIN Entries : Entries[k].category = Grouping[1][Categories[k]]
    /\ Len(last.out.calls) = Len(Merging)
    /\ \A k \in DOMAIN last.out.calls :
         /\ last.out.calls[k].outputFileName = Grouping[1][Merging[k]] \o <<".pdf">>
         /\ last.out.calls[k].searchType = "prefix"
         /\ last.out.calls[k].mimeTypes = <<PDF>>
         /\ Elements(last.out.calls[k].fileIds) = CategoryFiles(Merging[k])

\* C16: no entry for a column without a label; an entry with success = false
\* and a message for a column with a label and a substring that no file matches.
C16_NothingFoundIsReported ==
  SheetCalled =>
    /\ \A k \in DOMAIN Entries : Entries[k].category # Blank
    /\ \A k \in DOMAIN Categories :
         CategoryFiles(Categories[k]) = {} =>
           /\ k \in DOMAIN Entries
           /\ Entries[k].category = Grouping[1][Categories[k]]
           /\ ~Entries[k].success
           /\ Entries[k].message # ""

----------------------------------------------------------------------------
(* The student coordinator as a state machine: one call of                  *)
(* mergePDFsForAllStudents, into a destination folder D that may hold       *)
(* folders of earlier runs.                                                 *)

HeaderRow == <<"Name", "User ID", "Folder ID", <<"Destination">>>>

\* a row of the student data: name, user id, folder id, destination name
StudentRows ==
  { <<"Ann", "u1", "S", Blank>>,
    <<"", "u2", "", <<"Out">>>>,
    <<"Cat", "u3", BadFolderId, Blank>>,
    <<"Dan", "u4", "S1", <<"Out">>>>,
    <<"Eve", "u5", "", Blank>> }

StudentLists == UNION {[1..n -> StudentRows] : n \in 0..MaxStudents}

NullData == [isNull |-> TRUE, rows |-> <<>>]

StudentData ==
  {[isNull |-> FALSE, rows |-> [i \in 1..StartRow |-> HeaderRow] \o rows] :
     rows \in StudentLists}
    \cup {[isNull |-> FALSE, rows |-> <<HeaderRow>>], NullData}

\* a folder that an earlier run left in D
OldFolder == NewFile(DefaultFolderName, "D", FOLDER, <<>>, FALSE)

InitStudents ==
  /\ \E n \in 0..MaxExisting : files = SearchFiles \o [k \in 1..n |-> OldFolder]
  /\ destinationFolder = NoFolder
  /\ spreadsheet = WithSheets(TableOf(AllColumns))
  /\ last = [op |-> "idle"]
  /\ instances = <<>>
  /\ _instance = 0

Environment(destinationFolderId, recursive, answers, order) ==
  [dest |-> destinationFolder, destinationFolderId |-> destinationFolderId,
   recursive |-> recursive, answers |-> answers, order |-> order]

\* the faults that can happen: one for each call the fault-free run makes
StudentFaults(clean) ==
  {NoFault}
    \cup {[kind |-> "createFolder", at |-> n] : n \in 1..Min(MaxFaultAt, clean.nCreate)}
    \cup {[kind |-> "sheets", at |-> n] : n \in 1..Min(MaxFaultAt, clean.nSheets)}

CallMergePDFsForAllStudents(studentData, destinationFolderId, recursive) ==
  /\ last.op = "idle"
  /\ \E fault \in StudentFaults(
          mergePDFsForAllStudents(files, spreadsheet,
            Environment(destinationFolderId, recursive, <<>>, "low"), studentData,
            NoFault)) :
       LET probe == mergePDFsForAllStudents(files, spreadsheet,
                      Environment(destinationFolderId, recursive, <<>>, "low"),
                      studentData, fault)
       IN \E answers \in [1..probe.prompts -> {"YES", "NO"}],
             high \in Choices(probe.prompts > 0, FALSE) :
            LET out == mergePDFsForAllStudents(files, spreadsheet,
                         Environment(destinationFolderId, recursive, answers,
                                     IF high THEN "high" ELSE "low"),
                         studentData, fault)
            IN /\ files' = out.fs
               /\ spreadsheet' = out.spreadsheet
               /\ last' = [op |-> "mergePDFsForAllStudents", studentData |-> studentData,
                           destinationFolderId |-> destinationFolderId,
                           recursive |-> recursive, answers |-> answers, fault |-> fault,
                           before |-> files, out |-> [out EXCEPT !.fs = <<>>]]
  /\ UNCHANGED <<destinationFolder, instances, _instance>>

NextStudents ==
  \E studentData \in StudentData, destinationFolderId \in {"D", BadFolderId},
     recursive \in BOOLEAN :
    CallMergePDFsForAllStudents(studentData, destinationFolderId, recursive)

SpecStudents == InitStudents /\ [][NextStudents]_vars

----------------------------------------------------------------------------
(* What the claims about the student coordinator speak of *)

StudentsCalled == last.op = "mergePDFsForAllStudents" /\ ~last.studentData.isNull

\* the rows after the header rows
Students ==
  IF Len(last.studentData.rows) > StartRow
  THEN SubSeq(last.studentData.rows, StartRow + 1, Len(last.studentData.rows))
  ELSE <<>>

Reports ==
  IF "studentResults" \in DOMAIN last.out.result THEN last.out.result.studentResults
  ELSE <<>>

SourceOf(k) == Students[k][folderIdColumnIndex + 1]

Resolves(k) ==
  SourceOf(k) \notin {"", BadFolderId} /\ last.destinationFolderId # BadFolderId

\* the student is the n-th for whom either folder call is made
NthResolving(k, n) == Cardinality({j \in 1..k : Resolves(j)}) = n

FolderFails(k) ==
  Resolves(k) /\ last.fault.kind = "createFolder" /\ NthResolving(k, last.fault.at)

MergeFails(k) ==
  Resolves(k) /\ last.fault.kind = "sheets" /\ NthResolving(k, last.fault.at)

\* an exception is raised while student k is processed
Raised(k) == SourceOf(k) # "" /\ (~Resolves(k) \/ FolderFails(k) \/ MergeFails(k))

HasFolder(report) == "outputFolderId" \in DOMAIN report

\* C17: mergePDFsForAllStudents returns one report for each row after the
\* header rows, in row order; the report of a row without a folder id is a
\* failure that says so, and the rows after it have their reports too.
C17_OneReportPerStudent ==
  StudentsCalled =>
    /\ last.out.result.success
    /\ Len(Reports) = Len(Students)
    /\ \A k \in DOMAIN Reports :
         /\ Reports[k].student =
              IF Students[k][nameColumnIndex + 1] = "" /\ SourceOf(k) = ""
              THEN "Row " \o ToString(StartRow + k)
              ELSE Students[k][nameColumnIndex + 1]
         /\ SourceOf(k) = "" <=> Reports[k].message = "NoFolderId"
         /\ SourceOf(k) = "" => ~Reports[k].success

\* the first student has no folder id, the second is processed
C17_Witness ==
  /\ StudentsCalled
  /\ Len(Reports) = 2
  /\ SourceOf(1) = ""
  /\ Reports[1].message = "NoFolderId"
  /\ HasFolder(Reports[2])

\* C18: mergePDFsForAllStudents never throws; an exception raised while one
\* student is processed (a folder that does not resolve, the creation of the
\* destination subfolder, the category merge) gives that student a failed
\* report, and every other student is processed as without it.
C18_OneStudentFailsAlone ==
  /\ last.op = "mergePDFsForAllStudents" => ~last.out.threw
  /\ StudentsCalled =>
       /\ Len(Reports) = Len(Students)
       /\ \A k \in DOMAIN Reports :
            /\ Raised(k) => ~Reports[k].success /\ Reports[k].message = "Error"
            /\ Resolves(k) /\ ~FolderFails(k) => HasFolder(Reports[k])
            /\ HasFolder(Reports[k]) => Resolves(k)

\* the creation of the first student's subfolder fails, the second student
\* gets a subfolder
C18_Witness ==
  /\ StudentsCalled
  /\ Len(Reports) = 2
  /\ FolderFails(1)
  /\ Reports[1].message = "Error"
  /\ HasFolder(Reports[2])

\* the students for whom a subfolder is obtained
Processed == SelectSeq([k \in DOMAIN Students |-> k], LAMBDA k : Resolves(k) /\ ~FolderFails(k))

FolderNamed(id) == CHOOSE f \in DOMAIN files : FolderId(f) = id

WantedName(k) ==
  IF Students[k][destinationNameColumnIndex + 1] = Blank THEN DefaultFolderName
  ELSE Students[k][destinationNameColumnIndex + 1]

Reused(f) == f <= Len(last.before)

----------------------------------------------------------------------------
(* attachmentMover.js: processFolderAttachments and its helpers *)

MaxAttachments == 2    \* attachments of one submission

PNG == "image/png"

isZip(file) == file.mime = ZIP

isGoogleDoc(file) == file.mime = GOOGLE_DOCS

\* the folders DriveApp.getFolderById opens
StudentFolders == {"F1", "F2"}

\* the Classroom course work of the course
CourseWork == <<[title |-> "HW", id |-> "cw1"]>>

NoAssignment == "null"

\* courses.find(a => a.title === assignmentTitle), then assignment ? assignment.id : null
RECURSIVE findAssignmentId(_, _, _)
findAssignmentId(courses, assignmentTitle, k) ==
  IF k > Len(courses) THEN NoAssignment
  ELSE IF courses[k].title = assignmentTitle THEN courses[k].id
  ELSE findAssignmentId(courses, assignmentTitle, k + 1)

\* let pdfFiles = []; let googleDocsFiles = []; let zipFiles = []
NoneSorted == [pdfFiles |-> <<>>, googleDocsFiles |-> <<>>, zipFiles |-> <<>>]

\* try { file = DriveApp.getFileById(id); if isPdf .. else if isGoogleDoc ..
\* else if isZip .. } catch (e) { console.error }
sortFile(fs, id, sorted) ==
  IF id \notin DOMAIN fs THEN sorted
  ELSE IF isPdf(fs[id]) THEN [sorted EXCEPT !.pdfFiles = Append(@, id)]
  ELSE IF isGoogleDoc(fs[id]) THEN [sorted EXCEPT !.googleDocsFiles = Append(@, id)]
  ELSE IF isZip(fs[id]) THEN [sorted EXCEPT !.zipFiles = Append(@, id)]
  ELSE sorted

\* attachments.forEach(attachment => { if (attachment.driveFile) ... })
RECURSIVE sortAttachments(_, _, _, _)
sortAttachments(fs, attachments, k, sorted) ==
  IF k > Len(attachments) THEN sorted
  ELSE IF "driveFile" \in DOMAIN attachments[k]
  THEN sortAttachments(fs, attachments, k + 1,
                       sortFile(fs, attachments[k].driveFile.id, sorted))
  ELSE sortAttachments(fs, attachments, k + 1, sorted)

\* submission.assignmentSubmission.attachments || []
attachmentsOf(submission) ==
  IF "attachments" \in DOMAIN submission THEN submission.attachments ELSE <<>>

\* the run of one call: the Drive, the prompts shown, the copies attempted
AttachRun(fs) == [prompts |-> 0, log |-> <<>>, errors |-> 0, alerted |-> FALSE] @@ Start(fs)

\* what one copyFile or copyGoogleDocAsPdf call did, for the record of the call
noteCopy(acc, done, file, newFileName, taken, at) ==
  [done EXCEPT !.prompts = IF taken THEN @ + 1 ELSE @,
               !.log = Append(@, [row |-> at.row, submission |-> at.submission,
                                  file |-> file, name |-> newFileName,
                                  prompt |-> IF taken THEN acc.prompts + 1 ELSE 0,
                                  copied |-> Len(done.fs) > Len(acc.fs)])]

\* `${prependString}_${file.getName()}`
copyName(prependString, name) == prependString \o "_" \o name

\* `${prependString}_${file.getName()}.pdf`
pdfName(prependString, name) == prependString \o "_" \o name \o ".pdf"

\* const newFileName = `${prependString}_${file.getName()}`;
\* if (checkAndHandleExistingFile(folder, newFileName, userName)) file.makeCopy(...)
copyFile(acc, file, folder, env, at) ==
  noteCopy(acc,
           copyIfProceeding(
             checkAndHandleExistingFile(acc, folder,
                                        copyName(env.prependString, acc.fs[file].name),
                                        answerAt(env.answers, acc.prompts + 1), env.fault),
             file, folder, copyName(env.prependString, acc.fs[file].name), env.fault),
           file, copyName(env.prependString, acc.fs[file].name),
           getFilesByName(acc.fs, folder,
                          copyName(env.prependString, acc.fs[file].name)) # {},
           at)

\* file.getAs("application/pdf")
getAsPdf(file) == [empty |-> FALSE, pages |-> file.pages]

\* if (checkAndHandleExistingFile(...)) folder.createFile(pdfBlob).setName(newFileName)
createIfProceeding(checked, pdfBlob, folder, newFileName, fault) ==
  IF checked.threw \/ ~checked.proceed THEN checked
  ELSE IF Hits(fault, "copy", checked.nCopy + 1)
       THEN [checked EXCEPT !.nCopy = @ + 1, !.threw = TRUE]
       ELSE [checked EXCEPT !.nCopy = @ + 1,
                            !.fs = createFile(@, folder, newFileName, pdfBlob)]

\* const pdfBlob = file.getAs("application/pdf"), then as copyFile with the
\* name `${prependString}_${file.getName()}.pdf`
copyGoogleDocAsPdf(acc, file, folder, env, at) ==
  noteCopy(acc,
           createIfProceeding(
             checkAndHandleExistingFile(acc, folder,
                                        pdfName(env.prependString, acc.fs[file].name),
                                        answerAt(env.answers, acc.prompts + 1), env.fault),
             getAsPdf(acc.fs[file]), folder,
             pdfName(env.prependString, acc.fs[file].name), env.fault),
           file, pdfName(env.prependString, acc.fs[file].name),
           getFilesByName(acc.fs, folder,
                          pdfName(env.prependString, acc.fs[file].name)) # {},
           at)

\* zipFiles.forEach / pdfFiles.forEach / googleDocsFiles.forEach: a call that
\* throws ends the loop
RECURSIVE copyEach(_, _, _, _, _, _, _)
copyEach(acc, ids, k, folder, converting, env, at) ==
  IF acc.threw \/ k > Len(ids) THEN acc
  ELSE IF converting
  THEN copyEach(copyGoogleDocAsPdf(acc, ids[k], folder, env, at),
                ids, k + 1, folder, converting, env, at)
  ELSE copyEach(copyFile(acc, ids[k], folder, env, at),
                ids, k + 1, folder, converting, env, at)

\* a choice that copies the PDFs and converts the Google Docs as well
copyPdfsAndDocs(zipped, sorted, folder, env, at) ==
  copyEach(copyEach(zipped, sorted.pdfFiles, 1, folder, FALSE, env, at),
           sorted.googleDocsFiles, 1, folder, TRUE, env, at)

\* if (pdfFiles.length > 0) .. else if (googleDocsFiles.length > 0) ..
copyPdfsOrDocs(zipped, sorted, folder, env, at) ==
  IF zipped.threw THEN zipped
  ELSE IF Len(sorted.pdfFiles) > 0
  THEN copyEach(zipped, sorted.pdfFiles, 1, folder, FALSE, env, at)
  ELSE IF Len(sorted.googleDocsFiles) > 0
  THEN copyEach(zipped, sorted.googleDocsFiles, 1, folder, TRUE, env, at)
  ELSE zipped

\* catch (e) { console.error(`Error processing folder ID ...`) }
logFolderError(copied) ==
  IF copied.threw THEN [copied EXCEPT !.threw = FALSE, !.errors = @ + 1] ELSE copied

\* try { folder = DriveApp.getFolderById(folderId); zipFiles.forEach(copyFile); ... }
copySorted(acc, sorted, folderId, env, at) ==
  IF folderId \notin StudentFolders THEN logFolderError([acc EXCEPT !.threw = TRUE])
  ELSE logFolderError(
         copyPdfsOrDocs(copyEach(acc, sorted.zipFiles, 1, folderId, FALSE, env, at),
                        sorted, folderId, env, at))

\* submissions.forEach(submission => ...)
RECURSIVE eachSubmission(_, _, _, _, _, _)
eachSubmission(acc, submissions, s, folderId, env, row) ==
  IF s > Len(submissions) THEN acc
  ELSE eachSubmission(
         copySorted(acc,
                    sortAttachments(acc.fs, attachmentsOf(submissions[s]), 1, NoneSorted),
                    folderId, env, [row |-> row, submission |-> s]),
         submissions, s + 1, folderId, env, row)

\* data.forEach((row, index) => ...): index is row - 1
RECURSIVE eachRow(_, _, _, _)
eachRow(acc, data, row, env) ==
  IF row > Len(data) THEN acc
  ELSE IF row - 1 < 1 THEN eachRow(acc, data, row + 1, env)
  ELSE IF data[row][3] = "" THEN eachRow(acc, data, row + 1, env)
  ELSE eachRow(eachSubmission(acc, env.studentSubmissions[data[row][2]], 1,
                              data[row][3], env, row),
               data, row + 1, env)

processFolderAttachments(fs, assignmentTitle, data, env) ==
  IF findAssignmentId(CourseWork, assignmentTitle, 1) = NoAssignment
  THEN [AttachRun(fs) EXCEPT !.alerted = TRUE]
  ELSE eachRow(AttachRun(fs), data, 1, env)

----------------------------------------------------------------------------
(* The machine of the claims about the copied attachments *)

\* what the students own: two PDFs of one name, a Google Doc, a Zip, a picture
AttachmentFiles ==
  << NewFile("w.pdf", "U", PDF, PagesOf(1, 1), TRUE),
     NewFile("w.pdf", "U", PDF, PagesOf(2, 1), TRUE),
     NewFile("w", "U", GOOGLE_DOCS, PagesOf(3, 1), TRUE),
     NewFile("z.zip", "U", ZIP, PagesOf(4, 1), TRUE),
     NewFile("p.png", "U", PNG, PagesOf(5, 1), TRUE) >>

\* a copy that an earlier run left in the first student's folder
OldCopy == NewFile(copyName("P", "w.pdf"), "F1", PDF, PagesOf(0, 1), TRUE)

\* a Drive file, a Drive file that cannot be opened (id 0), a link
Attachments ==
  {[driveFile |-> [id |-> id]] : id \in 0..Len(AttachmentFiles)}
    \cup {[link |-> [url |-> "http://x"]]}

AttachmentLists == UNION {[1..n -> Attachments] : n \in 0..MaxAttachments}

SheetHeader == <<"Name", "Email", "Folder ID">>

\* the rows of the Student Info sheet: name, user id, folder id
SheetData ==
  { << SheetHeader, <<"Ann", "u1", "F1">> >>,
    << SheetHeader, <<"Bob", "u2", "">>, <<"Ann", "u1", "F1">>, <<"Cat", "u3", BadFolderId>> >>,
    << SheetHeader, <<"Dan", "u4", "F2">>, <<"Ann", "u1", "F1">> >> }

\* every student handed in the same attachments; Dan has an empty draft as well
StudentSubmissions(attachments) ==
  [u \in {"u1", "u2", "u3", "u4"} |->
     IF u = "u4" THEN <<[state |-> "CREATED"], [attachments |-> attachments]>>
     ELSE <<[attachments |-> attachments]>>]

AttachEnvironment(attachments, answers, fault) ==
  [prependString |-> "P", studentSubmissions |-> StudentSubmissions(attachments),
   answers |-> answers, fault |-> fault]

InitAttach ==
  /\ \E n \in 0..MaxExisting : files = AttachmentFiles \o [k \in 1..n |-> OldCopy]
  /\ destinationFolder = NoFolder
  /\ spreadsheet = NoSpreadsheet
  /\ last = [op |-> "idle"]
  /\ instances = <<>>
  /\ _instance = 0

\* the copies that can fail are those the fault-free run makes
CopyFaults(clean) ==
  {NoFault} \cup {[kind |-> "copy", at |-> n] : n \in 1..Min(MaxFaultAt, clean.nCopy)}

CallProcessFolderAttachments(assignmentTitle, data, attachments) ==
  /\ last.op = "idle"
  /\ \E fault \in CopyFaults(processFolderAttachments(files, assignmentTitle, data,
                               AttachEnvironment(attachments, <<>>, NoFault))) :
       LET probe == processFolderAttachments(files, assignmentTitle, data,
                      AttachEnvironment(attachments, <<>>, fault))
       IN \E answers \in [1..probe.prompts -> {"YES", "NO"}] :
            LET out == processFolderAttachments(files, assignmentTitle, data,
                         AttachEnvironment(attachments, answers, fault))
            IN /\ files' = out.fs
               /\ last' = [op |-> "processFolderAttachments",
                           assignmentTitle |-> assignmentTitle, data |-> data,
                           attachments |-> attachments, answers |-> answers,
                           fault |-> fault, before |-> files,
                           out |-> [log |-> out.log, prompts |-> out.prompts,
                                    errors |-> out.errors, alerted |-> out.alerted]]
  /\ UNCHANGED <<destinationFolder, spreadsheet, instances, _instance>>

NextAttach ==
  \E assignmentTitle \in {"HW", "Quiz"}, data \in SheetData,
     attachments \in AttachmentLists :
    CallProcessFolderAttachments(assignmentTitle, data, attachments)

SpecAttach == InitAttach /\ [][NextAttach]_vars

----------------------------------------------------------------------------
(* What the claim about the copied attachments speaks of *)

AttachCalled == last.op = "processFolderAttachments" /\ ~last.out.alerted

\* the rows after the header row that name a folder
HandledRows == {r \in 2..Len(last.data) : last.data[r][3] # ""}

FolderOfRow(r) == last.data[r][3]

SubmissionsOfRow(r) == StudentSubmissions(last.attachments)[last.data[r][2]]

\* the Drive files attached to a submission that can be opened, in order
RECURSIVE OpenedFrom(_, _)
OpenedFrom(attachments, k) ==
  IF k > Len(attachments) THEN <<>>
  ELSE IF /\ "driveFile" \in DOMAIN attachments[k]
          /\ attachments[k].driveFile.id \in DOMAIN last.before
  THEN <<attachments[k].driveFile.id>> \o OpenedFrom(attachments, k + 1)
  ELSE OpenedFrom(attachments, k + 1)

Opened(r, s) == OpenedFrom(attachmentsOf(SubmissionsOfRow(r)[s]), 1)

OfType(ids, mime) == SelectSeq(ids, LAMBDA id : last.before[id].mime = mime)

\* the name and the type a copy of the file gets
NameOfCopy(id) ==
  IF last.before[id].mime = GOOGLE_DOCS THEN "P_" \o last.before[id].name \o ".pdf"
  ELSE "P_" \o last.before[id].name

TypeOfCopy(id) ==
  IF last.before[id].mime = GOOGLE_DOCS THEN PDF ELSE last.before[id].mime

IsCopyOf(file, id, folder) ==
  /\ file.folder = folder
  /\ file.name = NameOfCopy(id)
  /\ file.mime = TypeOfCopy(id)
  /\ file.pages = last.before[id].pages

\* the call put a copy of the file into the folder
Copied(id, folder) ==
  \E f \in DOMAIN files : f > Len(last.before) /\ IsCopyOf(files[f], id, folder)

AttemptsOf(r, s) ==
  SelectSeq(last.out.log, LAMBDA e : e.row = r /\ e.submission = s)

\* the copies the type rule asks for
Expected(r, s) ==
  IF FolderOfRow(r) \notin StudentFolders THEN <<>>
  ELSE OfType(Opened(r, s), ZIP)
         \o (IF OfType(Opened(r, s), PDF) # <<>> THEN OfType(Opened(r, s), PDF)
             ELSE OfType(Opened(r, s), GOOGLE_DOCS))

\* a file of the name was in the folder when the k-th copy was attempted
Taken(k) ==
  LET e == last.out.log[k] IN
  \/ \E f \in DOMAIN last.before :
       /\ last.before[f].folder = FolderOfRow(e.row)
       /\ last.before[f].name = e.name
       /\ ~last.before[f].trashed
  \/ \E j \in 1..(k - 1) :
       /\ FolderOfRow(last.out.log[j].row) = FolderOfRow(e.row)
       /\ last.out.log[j].name = e.name

CopyDeclined(k) == Taken(k) /\ last.answers[last.out.log[k].prompt] = "NO"

CopyReplaced(k) == Taken(k) /\ last.answers[last.out.log[k].prompt] = "YES"

\* the attempts that were not declined
Made == SelectSeq(last.out.log, LAMBDA e : e.copied)

----------------------------------------------------------------------------
(* What the claims about the batches speak of *)

\* the call went through the batch loop of processPDFsInBatches
BatchingPath ==
  \/ last.op = "processPDFsInBatches" /\ Len(last.items) > last.batchSize
  \/ MergePDFsCalled /\ Len(last.out.tempFiles) > 0

\* the batch size of the call
BatchSizeOfCall ==
  IF last.op = "processPDFsInBatches" THEN last.batchSize ELSE DefaultBatchSize

CeilDiv(n, d) == (n + d - 1) \div d

\* C21 (as stated): a mergePDFs call with more than 5 valid files merges them
\* in batches of 5, and one with 2 to 5 valid files in a single pass.
C21_BatchesAboveFive ==
  (/\ MergePDFsCalled
   /\ Len(ValidItems(Before, last.items)) >= 2
   /\ last.fault = NoFault)
  => LET n == Len(ValidItems(Before, last.items)) IN
     IF n > DefaultBatchSize
     THEN /\ Len(last.out.tempFiles) = CeilDiv(n, DefaultBatchSize)
          /\ Len(last.out.passes) = CeilDiv(n, DefaultBatchSize) + 1
          /\ last.out.passes[1] = DefaultBatchSize
     ELSE last.out.passes = <<n>>

\* the documents the passes of a batched merge of n files are given: the
\* batches in order, then the temporary files
BatchedPasses(n, batchSize) ==
  [k \in 1..CeilDiv(n, batchSize) |-> Min(batchSize, n - batchSize * (k - 1))]
    \o <<CeilDiv(n, batchSize)>>

\* C21 (amended): a mergePDFs call that suffers no fault merges more than 10
\* valid files in sequential batches of 5, one temporary file for each batch,
\* and 2 to 10 valid files in a single pass.
C21_BatchesAboveTen ==
  (/\ MergePDFsCalled
   /\ Len(ValidItems(Before, last.items)) >= 2
   /\ last.fault = NoFault)
  => LET n == Len(ValidItems(Before, last.items)) IN
     IF n > 10
     THEN /\ last.out.passes = BatchedPasses(n, 5)
          /\ Len(last.out.tempFiles) = CeilDiv(n, 5)
     ELSE /\ last.out.passes = <<n>>
          /\ last.out.tempFiles = <<>>

\* six valid files go through one pass
C21_Witness ==
  /\ MergePDFsCalled
  /\ last.fault = NoFault
  /\ Len(ValidItems(Before, last.items)) = 6
  /\ last.out.passes = <<6>>
  /\ last.out.exit = "merged"

\* C22 (as stated): on the batching path no mergeMultiplePdfFiles call is
\* given more than batchSize documents.
C22_NoPassAboveBatchSize ==
  BatchingPath =>
    \A k \in DOMAIN last.out.passes : last.out.passes[k] <= BatchSizeOfCall

\* C23 (as stated): every file a mergePDFs call creates, temporary batch
\* files included, is in the effective destination of the call.
C23_CreatesOnlyInDestination ==
  MergePDFsCalled => \A f \in CreatedFiles : files[f].folder = Destination

----------------------------------------------------------------------------
(* DriveManager: the writers that consult checkAndHandleExistingFile *)

\* DriveManager.copyFile
DriveManager_copyFile(st, file, folder, prependString, answer, fault) ==
  copyIfProceeding(
    checkAndHandleExistingFile(st, folder, copyName(prependString, st.fs[file].name),
                               answer, fault),
    file, folder, copyName(prependString, st.fs[file].name), fault)

\* DriveManager.copyGoogleDocAsPdf
DriveManager_copyGoogleDocAsPdf(st, file, folder, prependString, answer, fault) ==
  createIfProceeding(
    checkAndHandleExistingFile(st, folder, pdfName(prependString, st.fs[file].name),
                               answer, fault),
    getAsPdf(st.fs[file]), folder, pdfName(prependString, st.fs[file].name), fault)

\* the destination folder if it is given and opens, else the first parent of
\* the source file
targetFolder(fs, sourceFile, destinationFolderId) ==
  IF destinationFolderId # NoFolder /\ destinationFolderId \in StudentFolders
  THEN destinationFolderId
  ELSE fs[sourceFile].folder

\* the end of copyDocument: the copy, null after a NO, or its catch (alert, null)
returnCopied(copied) ==
  IF copied.threw THEN [copied EXCEPT !.threw = FALSE, !.exit = "error"]
  ELSE IF copied.proceed THEN [copied EXCEPT !.exit = "copied"]
  ELSE [copied EXCEPT !.exit = "skipped"]

copyDocument(st, sourceFile, newName, destinationFolderId, answer, fault) ==
  IF sourceFile \notin DOMAIN st.fs THEN [st EXCEPT !.exit = "error"]
  ELSE IF st.fs[sourceFile].mime # GOOGLE_DOCS THEN [st EXCEPT !.exit = "notDoc"]
  ELSE returnCopied(
         copyAndRenameFile(st, sourceFile,
                           targetFolder(st.fs, sourceFile, destinationFolderId),
                           newName, answer, fault))

----------------------------------------------------------------------------
(* The machine of the claim about the collision prompt: one call of a       *)
(* writer on a Drive where an earlier run has left copies.                   *)

WriterFolders == {"F1", "F2"}

NewNames == {copyName("P", "w.pdf"), "new"}

AnswerOf(keep) == IF keep THEN "NO" ELSE "YES"

\* the call returns: Drive is as the call has left it
WriterReturns(op, file, folder, name, answer, fault, out) ==
  /\ files' = out.fs
  /\ last' = [op |-> op, file |-> file, folder |-> folder, name |-> name,
              answer |-> answer, fault |-> fault, before |-> files,
              out |-> [out EXCEPT !.fs = <<>>]]

CallCheckAndHandleExistingFile(folder, newFileName) ==
  /\ last.op = "idle"
  /\ \E keep \in Choices(getFilesByName(files, folder, newFileName) # {}, FALSE) :
       \E fault \in FaultsOf(checkAndHandleExistingFile(Start(files), folder, newFileName,
                                                         AnswerOf(keep), NoFault)) :
         WriterReturns("checkAndHandleExistingFile", NoFile, folder, newFileName,
                       AnswerOf(keep), fault,
                       checkAndHandleExistingFile(Start(files), folder, newFileName,
                                                  AnswerOf(keep), fault))
  /\ UNCHANGED <<destinationFolder, spreadsheet, instances, _instance>>

CallCopyFile(file, folder) ==
  /\ last.op = "idle"
  /\ \E keep \in Choices(DriveManager_copyFile(Start(files), file, folder, "P", "NO",
                                               NoFault).asked, FALSE) :
       \E fault \in FaultsOf(DriveManager_copyFile(Start(files), file, folder, "P",
                                                    AnswerOf(keep), NoFault)) :
         WriterReturns("copyFile", file, folder, "", AnswerOf(keep), fault,
                       DriveManager_copyFile(Start(files), file, folder, "P",
                                             AnswerOf(keep), fault))
  /\ UNCHANGED <<destinationFolder, spreadsheet, instances, _instance>>

CallCopyGoogleDocAsPdf(file, folder) ==
  /\ last.op = "idle"
  /\ \E keep \in Choices(DriveManager_copyGoogleDocAsPdf(Start(files), file, folder, "P",
                                                         "NO", NoFault).asked, FALSE) :
       \E fault \in FaultsOf(DriveManager_copyGoogleDocAsPdf(Start(files), file, folder,
                                                              "P", AnswerOf(keep),
                                                              NoFault)) :
         WriterReturns("copyGoogleDocAsPdf", file, folder, "", AnswerOf(keep), fault,
                       DriveManager_copyGoogleDocAsPdf(Start(files), file, folder, "P",
                                                       AnswerOf(keep), fault))
  /\ UNCHANGED <<destinationFolder, spreadsheet, instances, _instance>>

CallCopyAndRenameFile(file, folder, newFileName) ==
  /\ last.op = "idle"
  /\ \E keep \in Choices(copyAndRenameFile(Start(files), file, folder, newFileName, "NO",
                                           NoFault).asked, FALSE) :
       \E fault \in FaultsOf(copyAndRenameFile(Start(files), file, folder, newFileName,
                                                AnswerOf(keep), NoFault)) :
         WriterReturns("copyAndRenameFile", file, folder, newFileName, AnswerOf(keep),
                       fault,
                       copyAndRenameFile(Start(files), file, folder, newFileName,
                                         AnswerOf(keep), fault))
  /\ UNCHANGED <<destinationFolder, spreadsheet, instances, _instance>>

CallCopyDocument(sourceFile, newName, destinationFolderId) ==
  /\ last.op = "idle"
  /\ \E keep \in Choices(copyDocument(Start(files), sourceFile, newName,
                                      destinationFolderId, "NO", NoFault).asked, FALSE) :
       \E fault \in FaultsOf(copyDocument(Start(files), sourceFile, newName,
                                           destinationFolderId, AnswerOf(keep), NoFault)) :
         WriterReturns("copyDocument", sourceFile, destinationFolderId, newName,
                       AnswerOf(keep), fault,
                       copyDocument(Start(files), sourceFile, newName, destinationFolderId,
                                    AnswerOf(keep), fault))
  /\ UNCHANGED <<destinationFolder, spreadsheet, instances, _instance>>

NextWrite ==
  \/ \E folder \in WriterFolders, newFileName \in NewNames :
       CallCheckAndHandleExistingFile(folder, newFileName)
  \/ \E file \in DOMAIN AttachmentFiles, folder \in WriterFolders :
       CallCopyFile(file, folder)
  \/ \E file \in DOMAIN AttachmentFiles, folder \in WriterFolders :
       CallCopyGoogleDocAsPdf(file, folder)
  \/ \E file \in DOMAIN AttachmentFiles, folder \in WriterFolders,
        newFileName \in NewNames :
       CallCopyAndRenameFile(file, folder, newFileName)
  \/ \E sourceFile \in 0..Len(AttachmentFiles), newName \in NewNames,
        destinationFolderId \in WriterFolders \cup {NoFolder, BadFolderId} :
       CallCopyDocument(sourceFile, newName, destinationFolderId)

SpecWrite == InitAttach /\ [][NextWrite]_vars

----------------------------------------------------------------------------
(* What the claim about the collision prompt speaks of *)

Writers == {"copyFile", "copyGoogleDocAsPdf", "copyAndRenameFile", "copyDocument"}

\* the call has got as far as checkAndHandleExistingFile
WriterCalled ==
  \/ last.op \in {"checkAndHandleExistingFile", "copyFile", "copyGoogleDocAsPdf",
                  "copyAndRenameFile"}
  \/ /\ last.op = "copyDocument"
     /\ last.file \in DOMAIN last.before
     /\ last.before[last.file].mime = GOOGLE_DOCS

\* the folder and the name the call writes to
WrittenFolder ==
  IF last.op = "copyDocument" /\ last.folder \notin WriterFolders
  THEN last.before[last.file].folder
  ELSE last.folder

WrittenName ==
  IF last.op = "copyFile" THEN "P_" \o last.before[last.file].name
  ELSE IF last.op = "copyGoogleDocAsPdf" THEN "P_" \o last.before[last.file].name \o ".pdf"
  ELSE last.name

\* the same-named files that were in the folder
SameNamed ==
  {f \in DOMAIN last.before :
     /\ last.before[f].folder = WrittenFolder
     /\ last.before[f].name = WrittenName
     /\ ~last.before[f].trashed}

\* C24: checkAndHandleExistingFile returns true exactly when there is no
\* same-named file or the answer is YES; when it returns after a YES every
\* same-named file of the folder has been trashed; after a NO nothing is
\* trashed and the writer that consulted it creates nothing: Drive is as it was.
C24_ReplaceOrKeep ==
  WriterCalled =>
    /\ (last.op = "checkAndHandleExistingFile" /\ ~last.out.threw) =>
         (last.out.proceed <=> (SameNamed = {} \/ last.answer = "YES"))
    /\ last.out.asked <=> SameNamed # {}
    /\ (SameNamed # {} /\ last.answer = "YES" /\ last.fault.kind # "trash") =>
         /\ \A f \in SameNamed : files[f].trashed
         /\ \A f \in DOMAIN last.before \ SameNamed : files[f] = last.before[f]
    /\ (SameNamed # {} /\ last.answer = "NO") => files = last.before
    /\ (SameNamed = {} /\ last.op = "checkAndHandleExistingFile") => files = last.before

\* a writer replaces two earlier copies: both are trashed, one file is added
C24_Witness ==
  /\ last.op \in Writers
  /\ WriterCalled
  /\ last.answer = "YES"
  /\ last.fault = NoFault
  /\ Cardinality(SameNamed) = 2
  /\ \A f \in SameNamed : files[f].trashed
  /\ Len(files) = Len(last.before) + 1
  /\ files[Len(files)].name = WrittenName
  /\ files[Len(files)].folder = WrittenFolder

----------------------------------------------------------------------------
(* PDFMerger.getInstance, the constructor and setDestinationFolder *)

MaxCalls == 5    \* getInstance calls and constructions of one run

Null == 0

\* PDFMerger and its objects, and the object the call has yielded
Heap(objects, instance) == [instances |-> objects, instance |-> instance, returned |-> Null]

\* the object that `new` allocates and hands to the constructor as `this`
Allocated == [initialised |-> FALSE, destinationFolder |-> "undefined"]

\* this.destinationFolder = null; this.pdfLib = this.loadPdfLib()
Initialised == [initialised |-> TRUE, destinationFolder |-> NoFolder]

\* a constructor without the guard of its first lines
constructUnguarded(heap) ==
  [instances |-> Append(heap.instances, Initialised),
   instance |-> Len(heap.instances) + 1,
   returned |-> Len(heap.instances) + 1]

\* new PDFMerger(): a constructor that returns an object yields that object
\* in place of `this`
construct(heap) ==
  IF heap.instance # Null
  THEN [heap EXCEPT !.instances = Append(@, Allocated), !.returned = heap.instance]
  ELSE [instances |-> Append(heap.instances, Initialised),
        instance |-> Len(heap.instances) + 1,
        returned |-> Len(heap.instances) + 1]

\* PDFMerger._instance = new PDFMerger()
assignInstance(made) == [made EXCEPT !.instance = made.returned]

getInstance(heap) ==
  IF heap.instance = Null
  THEN [assignInstance(construct(heap)) EXCEPT
          !.returned = assignInstance(construct(heap)).instance]
  ELSE [heap EXCEPT !.returned = heap.instance]

setDestinationFolder(heap, this, folder) ==
  [heap EXCEPT !.instances[this].destinationFolder = folder]

----------------------------------------------------------------------------
(* The machine of the claim about the singleton: a run of the script gets,  *)
(* constructs and configures mergers in any order.                           *)

InitInstance ==
  /\ files = InputFiles
  /\ destinationFolder = NoFolder
  /\ spreadsheet = NoSpreadsheet
  /\ instances = <<>>
  /\ _instance = Null
  /\ last = [op |-> "idle", yielded |-> <<>>]

\* the call yields an object: last.yielded lists the objects yielded so far
Yields(op, heap) ==
  /\ instances' = heap.instances
  /\ _instance' = heap.instance
  /\ last' = [op |-> op, yielded |-> Append(last.yielded, heap.returned),
              instanceBefore |-> _instance, instancesBefore |-> instances]
  /\ UNCHANGED <<files, destinationFolder, spreadsheet>>

CallGetInstance ==
  /\ Len(last.yielded) < MaxCalls
  /\ Yields("getInstance", getInstance(Heap(instances, _instance)))

CallNewPDFMerger ==
  /\ Len(last.yielded) < MaxCalls
  /\ Yields("new", construct(Heap(instances, _instance)))

\* on an object that an earlier call has yielded
CallSetDestinationFolder(this, folder) ==
  /\ \E k \in DOMAIN last.yielded : last.yielded[k] = this
  /\ instances[this].destinationFolder # folder
  /\ instances' = setDestinationFolder(Heap(instances, _instance), this, folder).instances
  /\ last' = [op |-> "setDestinationFolder", yielded |-> last.yielded,
              instanceBefore |-> _instance, instancesBefore |-> instances]
  /\ UNCHANGED <<files, destinationFolder, spreadsheet, _instance>>

NextInstance ==
  \/ CallGetInstance
  \/ CallNewPDFMerger
  \/ \E this \in DOMAIN instances, folder \in {NoFolder, "F1", "F2"} :
       CallSetDestinationFolder(this, folder)

SpecInstance == InitInstance /\ [][NextInstance]_vars

----------------------------------------------------------------------------
\* C25: after any sequence of getInstance calls and constructions there is
\* one merger at most: every call has yielded the same object, which is
\* PDFMerger._instance and the only object a constructor has initialised,
\* and a getInstance call or a construction after the first leaves the
\* destinationFolder of that object as it was.
C25_OneInstance ==
  /\ \A k \in DOMAIN last.yielded :
       /\ last.yielded[k] = _instance
       /\ last.yielded[k] = last.yielded[1]
  /\ Cardinality({o \in DOMAIN instances : instances[o].initialised}) <= 1
  /\ _instance # Null => instances[_instance].initialised
  /\ (last.op \in {"getInstance", "new"} /\ last.instanceBefore # Null) =>
       /\ _instance = last.instanceBefore
       /\ instances[_instance].destinationFolder
            = last.instancesBefore[_instance].destinationFolder

\* a construction after setDestinationFolder yields the merger that
\* getInstance made, with its folder still set
C25_Witness ==
  /\ last.op = "new"
  /\ Len(last.yielded) >= 3
  /\ last.instanceBefore # Null
  /\ instances[last.yielded[Len(last.yielded)]].destinationFolder = "F2"
  /\ Len(instances) >= 2

----------------------------------------------------------------------------
(* The static PDFMerger.mergePDFsForAllStudents: the folder-id column *)

MaxHeaders == 3    \* cells of the header row

\* header.toLowerCase(), a header being a sequence of words
lowerCaseWord(word) ==
  CASE word = "Folder" -> "folder"
    [] word = "FOLDER" -> "folder"
    [] word = "Name" -> "name"
    [] word = "ID" -> "id"
    [] OTHER -> word

headerToLowerCase(header) == [i \in DOMAIN header |-> lowerCaseWord(header[i])]

\* headers.findIndex(header => header.toLowerCase().includes("folder")) from index i on
RECURSIVE findIndexFrom(_, _)
findIndexFrom(headers, i) ==
  IF i >= Len(headers) THEN -1
  ELSE IF includes(headerToLowerCase(headers[i + 1]), <<"folder">>) THEN i
  ELSE findIndexFrom(headers, i + 1)

findIndex(headers) == findIndexFrom(headers, 0)

\* index || 2: 0, the one falsy index, gives the default
indexOr(index, default) == IF index = 0 THEN default ELSE index

staticFolderIdColumnIndex(headers) == indexOr(findIndex(headers), 2)

----------------------------------------------------------------------------
(* The machine of the claim about the folder-id column *)

HeaderCells ==
  {<<"Name">>, <<"email">>, <<"Folder", " ", "ID">>, <<"sub", "folder">>, <<"FOLDER">>}

HeaderRows == UNION {[1..n -> HeaderCells] : n \in 0..MaxHeaders}

InitHeaders ==
  /\ files = <<>>
  /\ destinationFolder = NoFolder
  /\ spreadsheet = NoSpreadsheet
  /\ instances = <<>>
  /\ _instance = 0
  /\ \E headers \in HeaderRows : last = [op |-> "idle", headers |-> headers]

CallFolderIdColumnIndex ==
  /\ last.op = "idle"
  /\ last' = [op |-> "folderIdColumnIndex", headers |-> last.headers,
              folderIdColumnIndex |-> staticFolderIdColumnIndex(last.headers)]
  /\ UNCHANGED <<files, destinationFolder, spreadsheet, instances, _instance>>

NextHeaders == CallFolderIdColumnIndex

SpecHeaders == InitHeaders /\ [][NextHeaders]_vars

----------------------------------------------------------------------------
\* the headers that contain "folder" once lower-cased, by 0-based index
FolderHeaders ==
  {i \in 0..(Len(last.headers) - 1) :
     \E k \in DOMAIN last.headers[i + 1] :
       last.headers[i + 1][k] \in {"folder", "Folder", "FOLDER"}}

\* C26 (as stated): the folder-id column is the index of the first header
\* that contains 'folder' whatever its case, and index 2 when there is none.
C26_FirstFolderHeaderOrThird ==
  last.op = "folderIdColumnIndex" =>
    IF FolderHeaders = {} THEN last.folderIdColumnIndex = 2
    ELSE /\ last.folderIdColumnIndex \in FolderHeaders
         /\ \A i \in FolderHeaders : last.folderIdColumnIndex <= i

----------------------------------------------------------------------------
\* C27 (as stated): mergePDFsFromPrefixSheet never returns "Prefixes sheet
\* not found": the Prefixes sheet is there after the call, and the loop over
\* the categories is reached whenever the sheet has two rows or more.
C27_PrefixSheetAlwaysFound ==
  SheetCalled =>
    /\ "Prefixes" \in DOMAIN spreadsheet
    /\ last.out.result.message # "NoPrefixSheet"
    /\ Len(Grouping) >= 2 => "results" \in DOMAIN last.out.result

----------------------------------------------------------------------------
(* A merge none of whose inputs can be read (part_004, lines 605-660 and   *)
(* 813-847)                                                                *)

\* two or more items pass validation and none of them decodes; nothing else
\* goes wrong in the call and the user does not keep an existing output
NothingDecodes ==
  /\ MergePDFsCalled
  /\ Len(Valid) >= 2
  /\ Decoding(Before, Valid) = <<>>
  /\ last.fault \in {NoFault, DefaultPage}
  /\ ~Declined

MergedAll ==
  /\ last.out.exit = "merged"
  /\ Result.success
  /\ Result.count = Len(Valid)
  /\ Result.file \in CreatedFiles
  /\ files[Result.file].name = DefaultOutputFileName
  /\ ~files[Result.file].trashed

----------------------------------------------------------------------------
(* SpreadsheetManager.writeMembersToSheet (src/SpreadsheetManager.js, lines *)
(* 11-22): a sheet is the sequence of its rows, and the names of members    *)
(* and of their folders are strings                                         *)

MaxMembers == 3     \* members handed to writeMembersToSheet

MembersRoot == "R"

MemberNames == {"Ann", "Bob"}

\* the members of a course: user ids are distinct, names need not be
MemberLists ==
  UNION {{[k \in 1..n |-> [name |-> names[k], userId |-> "u" \o ToString(k)]] :
            names \in [1..n -> MemberNames]} : n \in 0..MaxMembers}

MemberHeaders == <<"Name", "User ID", "Folder ID">>

\* sheet.appendRow(row)
appendRow(sheet, row) == Append(sheet, row)

MembersRun(fs, sheet) ==
  [fs |-> fs, sheet |-> sheet, prompts |-> 0, proceed |-> TRUE, folder |-> NoFolder,
   threw |-> FALSE]

RECURSIVE forEachMember(_, _, _, _)

\* const row = [member.name, member.userId, folderId]; sheet.appendRow(row)
appendMemberRow(made, members, k, env) ==
  forEachMember([made EXCEPT !.sheet = appendRow(@, <<members[k].name, members[k].userId,
                                                      made.folder>>)],
                members, k + 1, env)

\* members.forEach(member => { createFolder(rootFolder, member.name); ... })
forEachMember(acc, members, k, env) ==
  IF k > Len(members) THEN acc
  ELSE appendMemberRow(createFolder(acc, env.rootFolder, members[k].name,
                                    answerAt(env.answers, acc.prompts + 1), env.order),
                       members, k, env)

\* the header row is written before DriveApp.getFolderById(rootFolderId), which
\* throws on an id that names no folder
writeMembersToSheet(fs, members, sheet, rootFolderId, env) ==
  IF rootFolderId = BadFolderId
  THEN [MembersRun(fs, appendRow(sheet, MemberHeaders)) EXCEPT !.threw = TRUE]
  ELSE forEachMember(MembersRun(fs, appendRow(sheet, MemberHeaders)), members, 1,
                     [env EXCEPT !.rootFolder = rootFolderId])

\* folders an earlier run has left: one outside the root folder, others in it
OtherFolder == NewFile("Ann", "T", FOLDER, <<>>, FALSE)

OldMemberFolder == NewFile("Ann", MembersRoot, FOLDER, <<>>, FALSE)

\* the caller clears the sheet before it has it written (UIManager.js, line 94)
InitMembers ==
  /\ \E n \in 0..MaxExisting : files = <<OtherFolder>> \o [k \in 1..n |-> OldMemberFolder]
  /\ destinationFolder = NoFolder
  /\ spreadsheet = ("Student Info" :> <<>>)
  /\ last = [op |-> "idle"]
  /\ instances = <<>>
  /\ _instance = 0

MembersEnvironment(answers, order) ==
  [rootFolder |-> NoFolder, answers |-> answers, order |-> order]

CallWriteMembersToSheet(members, rootFolderId) ==
  /\ last.op = "idle"
  /\ LET probe == writeMembersToSheet(files, members, spreadsheet["Student Info"],
                                      rootFolderId, MembersEnvironment(<<>>, "low"))
     IN \E answers \in [1..probe.prompts -> {"YES", "NO"}],
           high \in Choices(probe.prompts > 0, FALSE) :
          LET out == writeMembersToSheet(files, members, spreadsheet["Student Info"],
                       rootFolderId,
                       MembersEnvironment(answers, IF high THEN "high" ELSE "low"))
          IN /\ files' = out.fs
             /\ spreadsheet' = [spreadsheet EXCEPT !["Student Info"] = out.sheet]
             /\ last' = [op |-> "writeMembersToSheet", members |-> members,
                         rootFolderId |-> rootFolderId, answers |-> answers,
                         before |-> files, out |-> [out EXCEPT !.fs = <<>>]]
  /\ UNCHANGED <<destinationFolder, instances, _instance>>

NextMembers ==
  \E members \in MemberLists, rootFolderId \in {MembersRoot, BadFolderId} :
    CallWriteMembersToSheet(members, rootFolderId)

SpecMembers == InitMembers /\ [][NextMembers]_vars

MembersWritten == last.op = "writeMembersToSheet" /\ ~last.out.threw

StudentSheet == spreadsheet["Student Info"]

\* the sheet holds the header row and then one row per member, in member order
RowPerMember ==
  /\ Len(StudentSheet) = Len(last.members) + 1
  /\ StudentSheet[1] = MemberHeaders
  /\ \A k \in DOMAIN last.members :
       /\ StudentSheet[k + 1][1] = last.members[k].name
       /\ StudentSheet[k + 1][2] = last.members[k].userId

RecordedFolder(k) == StudentSheet[k + 1][3]

LiveUnderRoot(folderId) ==
  \E id \in DOMAIN files :
    /\ FolderId(id) = folderId
    /\ files[id].mime = FOLDER /\ ~files[id].trashed /\ files[id].folder = MembersRoot

\* C29: after writeMembersToSheet the sheet holds the header row followed by
\* one row per member in member order, and the folder ids of those rows are
\* pairwise distinct and each names a live folder under the root folder, for
\* any member list and any answers to the folder-collision prompt.
C29_OneLiveFolderPerMember ==
  MembersWritten
  => /\ RowPerMember
     /\ \A j, k \in DOMAIN last.members : j # k => RecordedFolder(j) # RecordedFolder(k)
     /\ \A k \in DOMAIN last.members : LiveUnderRoot(RecordedFolder(k))

----------------------------------------------------------------------------
(* DeclarationProcessor.createFinalDeclarationForms (src/DeclarationOrganiser.js, *)
(* lines 35-51 and 66-140).  A name is the sequence of its words and a word   *)
(* the sequence of its letters; file names, prefixes and names are sequences  *)
(* of tokens.  An exception is the value of threw; "none" is no exception.    *)

MaxRows == 2        \* student rows of the data handed to createFinalDeclarationForms

\* the declarations handed in: one with a candidate and a centre number, one
\* without; and a PDF
DeclarationFiles ==
  << NewFile(<<"decl">>, "U", GOOGLE_DOCS, PagesOf(1, 1), TRUE),
     NewFile(<<"draft">>, "U", GOOGLE_DOCS, PagesOf(2, 1), TRUE),
     NewFile(<<"scan.pdf">>, "U", PDF, PagesOf(3, 1), TRUE) >>

\* text.match(/\b\d{4}\b/) and text.match(/\b\d{5}\b/) on the text of the document
getCandidateAndCentreNo(file) ==
  IF file = 1 THEN [CandidateNo |-> "6789", CentreNo |-> "12345"]
  ELSE [CandidateNo |-> "null", CentreNo |-> "null"]

toUpperCase(letter) ==
  CASE letter = "a" -> "A" [] letter = "b" -> "B" [] letter = "c" -> "C"
    [] letter = "d" -> "D" [] letter = "e" -> "E" [] letter = "l" -> "L"
    [] letter = "o" -> "O" [] letter = "y" -> "Y" [] OTHER -> letter

ThrewTypeError == [threw |-> TRUE, value |-> <<>>]

\* const [firstName, surname] = name.split(' '); surname.slice(0, 2).toUpperCase()
\* throws when the name has one word; firstName.charAt(0) of "" is ""
formatStudentName(name) ==
  IF Len(name) < 2 THEN ThrewTypeError
  ELSE [threw |-> FALSE,
        value |-> << [k \in 1..Min(2, Len(name[2])) |-> toUpperCase(name[2][k])],
                     [k \in 1..Min(1, Len(name[1])) |-> toUpperCase(name[1][k])] >>]

\* `${centreNo}_${candidateNo}_${this.formatStudentName(name)}`
createStudentSubmissionPrefix(centreNo, candidateNo, name) ==
  IF formatStudentName(name).threw THEN ThrewTypeError
  ELSE [threw |-> FALSE, value |-> <<centreNo, candidateNo>> \o formatStudentName(name).value]

\* `0. Frontsheet_${StudentSubmissionPrefix}`
createFileName(StudentSubmissionPrefix) == <<"0. Frontsheet">> \o StudentSubmissionPrefix

NullObject == [threw |-> FALSE, isNull |-> TRUE, fileName |-> <<>>, studentSubmissionPrefix |-> <<>>]

prefixAndFilenameOf(prefix) ==
  IF prefix.threw THEN [NullObject EXCEPT !.threw = TRUE]
  ELSE [threw |-> FALSE, isNull |-> FALSE, fileName |-> createFileName(prefix.value),
        studentSubmissionPrefix |-> prefix.value]

\* if (CandidateNo && CentreNo) { ... return {fileName, studentSubmissionPrefix} }
\* else return null
generateStudentSubmissionPrefixAndFilename(file, name) ==
  IF getCandidateAndCentreNo(file).CandidateNo # "null"
       /\ getCandidateAndCentreNo(file).CentreNo # "null"
  THEN prefixAndFilenameOf(
         createStudentSubmissionPrefix(getCandidateAndCentreNo(file).CentreNo,
                                       getCandidateAndCentreNo(file).CandidateNo, name))
  ELSE NullObject

\* for (const attachment of attachments): the first Drive file that is a
\* Google Doc; null (NoFile) when there is none; getFileById throws on a file
\* that cannot be opened
RECURSIVE findFirstGoogleDocAttachment(_, _, _)
findFirstGoogleDocAttachment(fs, attachments, k) ==
  IF k > Len(attachments) THEN [threw |-> FALSE, file |-> NoFile]
  ELSE IF "driveFile" \notin DOMAIN attachments[k]
  THEN findFirstGoogleDocAttachment(fs, attachments, k + 1)
  ELSE IF attachments[k].driveFile.id \notin DOMAIN fs THEN [threw |-> TRUE, file |-> NoFile]
  ELSE IF isGoogleDoc(fs[attachments[k].driveFile.id])
  THEN [threw |-> FALSE, file |-> attachments[k].driveFile.id]
  ELSE findFirstGoogleDocAttachment(fs, attachments, k + 1)

\* the run of one call: the Drive, the data with the prefixes pushed so far, the
\* forms made, the exception that ended the call and the row it was thrown at
DeclarationRun(fs, data) ==
  [fs |-> fs, data |-> data, made |-> <<>>, threw |-> "none", at |-> 0,
   alerted |-> FALSE, returned |-> FALSE]

throw(acc, error, row) == [acc EXCEPT !.threw = error, !.at = row]

\* a handler that logs the missing attachment and goes on
logNoGoogleDoc(acc, row) == acc

\* console.error(...); throw new Error(`No Google Doc attachment found for user ${name}`)
throwNoGoogleDoc(acc, row) == throw(acc, "NoGoogleDoc", row)

\* createFinalDeclarationPDF(name, fileName, studentFolder), reduced to the file
\* it leaves in the student's folder: the declaration under the final name
createFinalDeclarationPDF(acc, file, mergedFileName, folder, row) ==
  [acc EXCEPT !.fs = Append(@, NewFile(mergedFileName, folder, PDF, acc.fs[file].pages, TRUE)),
              !.made = Append(@, [row |-> row, file |-> Len(acc.fs) + 1])]

\* studentDataRow.push(prefixAndFilename.studentSubmissionPrefix)
pushPrefix(acc, row, studentSubmissionPrefix) ==
  [acc EXCEPT !.data[row] = Append(@, studentSubmissionPrefix)]

RECURSIVE eachDeclarationSubmission(_, _, _, _)

\* prefixAndFilename.fileName of null is a TypeError
finalForm(acc, file, prefixAndFilename, submissions, s, row) ==
  IF prefixAndFilename.threw \/ prefixAndFilename.isNull THEN throw(acc, "TypeError", row)
  ELSE eachDeclarationSubmission(
         pushPrefix(createFinalDeclarationPDF(acc, file, prefixAndFilename.fileName,
                                              acc.data[row][3], row),
                    row, prefixAndFilename.studentSubmissionPrefix),
         submissions, s + 1, row)

declarationOf(acc, found, submissions, s, row) ==
  IF found.threw THEN throw(acc, "getFileById", row)
  ELSE IF found.file = NoFile
  THEN eachDeclarationSubmission(throwNoGoogleDoc(acc, row), submissions, s + 1, row)
  ELSE finalForm(acc, found.file,
                 generateStudentSubmissionPrefixAndFilename(found.file, acc.data[row][1]),
                 submissions, s, row)

\* submissions.forEach(submission => ...): nothing catches, an exception ends it
eachDeclarationSubmission(acc, submissions, s, row) ==
  IF acc.threw # "none" \/ s > Len(submissions) THEN acc
  ELSE declarationOf(acc,
                     findFirstGoogleDocAttachment(acc.fs, attachmentsOf(submissions[s]), 1),
                     submissions, s, row)

\* studentFolderData.forEach((studentDataRow, index) => ...): index is row - 1;
\* DriveApp.getFolderById throws on an id that names no folder
RECURSIVE eachDeclarationRow(_, _, _)
eachDeclarationRow(acc, row, env) ==
  IF acc.threw # "none" \/ row > Len(acc.data) THEN acc
  ELSE IF row - 1 < 3 THEN eachDeclarationRow(acc, row + 1, env)
  ELSE IF acc.data[row][3] = "" THEN eachDeclarationRow(acc, row + 1, env)
  ELSE IF acc.data[row][3] \notin StudentFolders THEN throw(acc, "getFolderById", row)
  ELSE eachDeclarationRow(
         eachDeclarationSubmission(acc, env.studentSubmissions[acc.data[row][2]], 1, row),
         row + 1, env)

\* return studentFolderData
returnData(acc) == IF acc.threw = "none" THEN [acc EXCEPT !.returned = TRUE] ELSE acc

\* ClassroomManager.getAssignmentId (src/classroomManager.js, lines 12-17)
getAssignmentId(courseWork, assignmentTitle) == findAssignmentId(courseWork, assignmentTitle, 1)

createFinalDeclarationForms(fs, assignmentTitle, studentFolderData, env) ==
  IF getAssignmentId(CourseWork, assignmentTitle) = NoAssignment
  THEN [DeclarationRun(fs, studentFolderData) EXCEPT !.alerted = TRUE]
  ELSE returnData(eachDeclarationRow(DeclarationRun(fs, studentFolderData), 1, env))

----------------------------------------------------------------------------
(* The machine of the claim about the declaration forms *)

\* the rows of the Student Info sheet: name, user id, folder id
DeclarationStudents ==
  << << << <<"a", "l">>, <<"l", "e", "e">> >>, "u1", "F1" >>,
     << << <<"b", "o">>, <<"d", "a", "y">> >>, "u2", "F2" >>,
     << << <<"c", "y">> >>, "u3", "F1" >>,
     << << <<"d", "e">>, <<"c", "o", "e">> >>, "u4", "" >>,
     << << <<"e", "d">>, <<"b", "a", "y">> >>, "u5", BadFolderId >> >>

\* the data processDeclarationsOnly builds: [[courseId]], [[""]], the header
\* row of the sheet and the rows of some students, each at most once
RowOrders ==
  UNION {{order \in [1..n -> DOMAIN DeclarationStudents] :
            \A i, j \in 1..n : i # j => order[i] # order[j]} : n \in 0..MaxRows}

DeclarationData ==
  {<< <<"c1">>, <<"">>, SheetHeader >>
     \o [k \in DOMAIN order |-> DeclarationStudents[order[k]]] : order \in RowOrders}

DriveFile(id) == [driveFile |-> [id |-> id]]

\* what a student has handed in
HandedIn ==
  { <<[attachments |-> <<DriveFile(1)>>]>>,
    <<[attachments |-> <<[link |-> [url |-> "http://x"]], DriveFile(3), DriveFile(1)>>]>>,
    <<[attachments |-> <<DriveFile(3)>>]>>,
    <<[state |-> "CREATED"]>>,
    <<[attachments |-> <<DriveFile(1)>>], [attachments |-> <<>>]>>,
    <<[attachments |-> <<DriveFile(2)>>]>>,
    <<[attachments |-> <<DriveFile(0)>>]>> }

UsersOf(data) == {data[row][2] : row \in 4..Len(data)}

InitDeclarations ==
  /\ files = DeclarationFiles
  /\ destinationFolder = NoFolder
  /\ spreadsheet = NoSpreadsheet
  /\ last = [op |-> "idle"]
  /\ instances = <<>>
  /\ _instance = 0

CallCreateFinalDeclarationForms(assignmentTitle, data) ==
  /\ last.op = "idle"
  /\ \E studentSubmissions \in [UsersOf(data) -> HandedIn] :
       LET out == createFinalDeclarationForms(files, assignmentTitle, data,
                    [studentSubmissions |-> studentSubmissions])
       IN /\ files' = out.fs
          /\ last' = [op |-> "createFinalDeclarationForms",
                      assignmentTitle |-> assignmentTitle, data |-> data,
                      studentSubmissions |-> studentSubmissions, before |-> files,
                      out |-> [out EXCEPT !.fs = <<>>]]
  /\ UNCHANGED <<destinationFolder, spreadsheet, instances, _instance>>

NextDeclarations ==
  \E assignmentTitle \in {"HW", "Quiz"}, data \in DeclarationData :
    CallCreateFinalDeclarationForms(assignmentTitle, data)

SpecDeclarations == InitDeclarations /\ [][NextDeclarations]_vars

----------------------------------------------------------------------------
(* What the claim about the declaration forms speaks of *)

DeclarationsCalled == last.op = "createFinalDeclarationForms" /\ ~last.out.alerted

\* the student rows that name a folder
DeclarationRows == {row \in 4..Len(last.data) : last.data[row][3] # ""}

\* a submission of the row's student has no Google Doc attachment
LacksGoogleDoc(row) ==
  \E s \in DOMAIN last.studentSubmissions[last.data[row][2]] :
    findFirstGoogleDocAttachment(last.before,
      attachmentsOf(last.studentSubmissions[last.data[row][2]][s]), 1)
      = [threw |-> FALSE, file |-> NoFile]

\* nothing was done for the row: no form made, no prefix pushed
Unprocessed(row) ==
  /\ \A k \in DOMAIN last.out.made : last.out.made[k].row # row
  /\ last.out.data[row] = last.data[row]

\* C30: there is no per-student isolation in createFinalDeclarationForms: when
\* a submission of a student whose row names a folder has no Google Doc
\* attachment, the call ends with an exception thrown at that row or before
\* it, no later row is processed and the data is not returned.
C30_MissingDocEndsTheRun ==
  DeclarationsCalled
  => \A row \in DeclarationRows :
       LacksGoogleDoc(row)
       => /\ last.out.threw # "none"
          /\ last.out.at <= row
          /\ last.out.at = row /\ last.data[row][3] \in StudentFolders
               => last.out.threw \in {"NoGoogleDoc", "TypeError"}
          /\ ~last.out.returned
          /\ \A later \in DeclarationRows : later > row => Unprocessed(later)

\* the first student's submission has no Google Doc, the second student's has
C30_Witness ==
  /\ DeclarationsCalled
  /\ Len(last.data) = 5
  /\ LacksGoogleDoc(4) /\ ~LacksGoogleDoc(5)
  /\ last.data[5][3] \in StudentFolders
  /\ last.studentSubmissions[last.data[5][2]] = <<[attachments |-> <<DriveFile(1)>>]>>
  /\ Len(last.data[5][1]) = 2
  /\ last.out.threw = "NoGoogleDoc" /\ last.out.at = 4
  /\ Unprocessed(5)


====
